---- MODULE Spec2Model ----
(* A model of electron-settings (lib/settings.js): a JSON settings file    *)
(* addressed by key paths, with synchronous and asynchronous load / mutate *)
(* / save cycles over a shared module-level configuration.                 *)
EXTENDS Integers, Sequences, FiniteSets, TLC

(***************************************************************************)
(* JavaScript values.  Every value is a record of one shape:               *)
(*   ty : "undef" | "null" | "bool" | "num" | "str" | "obj" | "arr" | "fn" *)
(*   s  : the characters of a string (or the digits of a number)           *)
(*   kv : the properties of an object, in insertion order, as records      *)
(*        [k |-> characters, v |-> value]; the elements of an array as     *)
(*        records with k = << >>.                                          *)
(***************************************************************************)
Undef == [ty |-> "undef", s |-> <<>>, kv |-> <<>>]
Null == [ty |-> "null", s |-> <<>>, kv |-> <<>>]
Fn == [ty |-> "fn", s |-> <<>>, kv |-> <<>>]
\* A function that throws whenever it is called.
FnThrows == [ty |-> "fn", s |-> <<"throws">>, kv |-> <<>>]
Throws(fn) == fn = FnThrows
Bool(b) == [ty |-> "bool", s |-> <<IF b THEN "true" ELSE "false">>, kv |-> <<>>]
Num(d) == [ty |-> "num", s |-> d, kv |-> <<>>]
Str(c) == [ty |-> "str", s |-> c, kv |-> <<>>]
Obj(props) == [ty |-> "obj", s |-> <<>>, kv |-> props]
Arr(els) == [ty |-> "arr", s |-> <<>>, kv |-> [i \in 1..Len(els) |-> [k |-> <<>>, v |-> els[i]]]]
P(k, v) == [k |-> k, v |-> v]
EmptyObj == Obj(<<>>)

\* JavaScript truthiness of a value used as a condition: if (keyPath) ...
Truthy(v) ==
  CASE v.ty \in {"undef", "null"} -> FALSE
    [] v.ty = "str" -> v.s # <<>>
    [] v.ty = "bool" -> v = Bool(TRUE)
    [] v.ty = "num" -> v.s # <<"0">>
    [] OTHER -> TRUE

\* The index of property k in an object's property list, 0 when absent.
RECURSIVE IndexOfKey(_, _, _)
IndexOfKey(props, k, i) ==
  IF i > Len(props) THEN 0
  ELSE IF props[i].k = k THEN i
  ELSE IndexOfKey(props, k, i + 1)

HasOwn(v, k) == v.ty = "obj" /\ IndexOfKey(v.kv, k, 1) # 0
Prop(v, k) == IF HasOwn(v, k) THEN v.kv[IndexOfKey(v.kv, k, 1)].v ELSE Undef

\* object[k] = x : an existing property keeps its position, a new one is appended.
PutProp(v, k, x) ==
  IF HasOwn(v, k)
  THEN Obj([v.kv EXCEPT ![IndexOfKey(v.kv, k, 1)] = P(k, x)])
  ELSE Obj(Append(v.kv, P(k, x)))

\* delete object[k]
DelProp(v, k) ==
  IF HasOwn(v, k)
  THEN Obj(SubSeq(v.kv, 1, IndexOfKey(v.kv, k, 1) - 1)
           \o SubSeq(v.kv, IndexOfKey(v.kv, k, 1) + 1, Len(v.kv)))
  ELSE v

\* assert.deepStrictEqual on JSON values: property order does not matter.
RECURSIVE DeepEqual(_, _)
DeepEqual(a, b) ==
  IF a.ty # b.ty THEN FALSE
  ELSE IF a.ty = "obj"
  THEN /\ Len(a.kv) = Len(b.kv)
       /\ \A i \in 1..Len(a.kv) :
            /\ HasOwn(b, a.kv[i].k)
            /\ DeepEqual(a.kv[i].v, Prop(b, a.kv[i].k))
  ELSE IF a.ty = "arr"
  THEN /\ Len(a.kv) = Len(b.kv)
       /\ \A i \in 1..Len(a.kv) : DeepEqual(a.kv[i].v, b.kv[i].v)
  ELSE a.s = b.s

(***************************************************************************)
(* JSON text.  A text is a sequence of tokens [k |-> kind, s |-> chars]:   *)
(* "p" punctuation, "str" a quoted string, "lit" a bare literal, "ws"      *)
(* whitespace.                                                             *)
(***************************************************************************)
Tok(k, s) == [k |-> k, s |-> s]
Punct(c) == Tok("p", <<c>>)
Spaces(n) == [i \in 1..n |-> " "]
Digits == {"0", "1", "2", "3", "4", "5", "6", "7", "8", "9"}

\* The line break and indentation JSON.stringify inserts at a nesting level.
Break(n, level) == IF n = 0 THEN <<>> ELSE <<Tok("ws", <<"\n">> \o Spaces(n * level))>>

\* JSON.stringify(v, null, n): the token sequence, or undefined for a value
\* that has no JSON text.
Serializable(v) == v.ty \notin {"undef", "fn"}

RECURSIVE StringifyAt(_, _, _)
RECURSIVE StringifyProps(_, _, _, _, _)
RECURSIVE StringifyEls(_, _, _, _)
StringifyProps(props, i, n, level, first) ==
  IF i > Len(props) THEN <<>>
  ELSE IF ~Serializable(props[i].v) THEN StringifyProps(props, i + 1, n, level, first)
  ELSE (IF first THEN <<>> ELSE <<Punct(",")>>)
       \o Break(n, level)
       \o <<Tok("str", props[i].k), Punct(":")>>
       \o (IF n = 0 THEN <<>> ELSE <<Tok("ws", <<" ">>)>>)
       \o StringifyAt(props[i].v, n, level)
       \o StringifyProps(props, i + 1, n, level, FALSE)

StringifyEls(els, i, n, level) ==
  IF i > Len(els) THEN <<>>
  ELSE (IF i = 1 THEN <<>> ELSE <<Punct(",")>>)
       \o Break(n, level)
       \o (IF Serializable(els[i].v) THEN StringifyAt(els[i].v, n, level)
           ELSE <<Tok("lit", <<"null">>)>>)
       \o StringifyEls(els, i + 1, n, level)

StringifyAt(v, n, level) ==
  CASE v.ty = "null" -> <<Tok("lit", <<"null">>)>>
    [] v.ty \in {"num", "bool"} -> <<Tok("lit", v.s)>>
    [] v.ty = "str" -> <<Tok("str", v.s)>>
    [] v.ty = "obj" ->
         LET inner == StringifyProps(v.kv, 1, n, level + 1, TRUE)
         IN  IF inner = <<>> THEN <<Punct("{"), Punct("}")>>
             ELSE <<Punct("{")>> \o inner \o Break(n, level) \o <<Punct("}")>>
    [] v.ty = "arr" ->
         IF v.kv = <<>> THEN <<Punct("["), Punct("]")>>
         ELSE <<Punct("[")>> \o StringifyEls(v.kv, 1, n, level + 1)
              \o Break(n, level) \o <<Punct("]")>>
    [] OTHER -> <<>>

\* A text value: def = FALSE stands for JavaScript's undefined.
Text(toks) == [def |-> TRUE, b |-> toks]
NoText == [def |-> FALSE, b |-> <<>>]

\* The indentation unit of JSON.stringify for a numeric space argument: at
\* most ten spaces.
Gap(n) == IF n > 10 THEN 10 ELSE n

JSONstringify(v, n) == IF Serializable(v) THEN Text(StringifyAt(v, Gap(n), 0)) ELSE NoText

\* JSON.parse: recursive descent over the tokens.  The result is
\* [ok, v, i] with i the index of the first token not consumed.
PFail == [ok |-> FALSE, v |-> Undef, i |-> 0]
POk(v, i) == [ok |-> TRUE, v |-> v, i |-> i]

RECURSIVE SkipWs(_, _)
SkipWs(t, i) == IF i <= Len(t) /\ t[i].k = "ws" THEN SkipWs(t, i + 1) ELSE i

IsPunct(t, i, c) == i <= Len(t) /\ t[i].k = "p" /\ t[i].s = <<c>>

RECURSIVE ParseValue(_, _)
RECURSIVE ParseMembers(_, _, _)
RECURSIVE ParseElements(_, _, _)
ParseMembers(t, i0, acc) ==
  LET i == SkipWs(t, i0) IN
  IF ~(i <= Len(t) /\ t[i].k = "str") THEN PFail
  ELSE LET c == SkipWs(t, i + 1) IN
       IF ~IsPunct(t, c, ":") THEN PFail
       ELSE LET r == ParseValue(t, c + 1) IN
            IF ~r.ok THEN PFail
            ELSE LET j == SkipWs(t, r.i)
                     acc2 == PutProp(acc, t[i].s, r.v)
                 IN  IF IsPunct(t, j, ",") THEN ParseMembers(t, j + 1, acc2)
                     ELSE IF IsPunct(t, j, "}") THEN POk(acc2, j + 1)
                     ELSE PFail

ParseElements(t, i0, acc) ==
  LET r == ParseValue(t, i0) IN
  IF ~r.ok THEN PFail
  ELSE LET j == SkipWs(t, r.i)
           acc2 == Append(acc, r.v)
       IN  IF IsPunct(t, j, ",") THEN ParseElements(t, j + 1, acc2)
           ELSE IF IsPunct(t, j, "]") THEN POk(Arr(acc2), j + 1)
           ELSE PFail

ParseValue(t, i0) ==
  LET i == SkipWs(t, i0) IN
  IF i > Len(t) THEN PFail
  ELSE IF t[i].k = "str" THEN POk(Str(t[i].s), i + 1)
  ELSE IF t[i].k = "lit"
  THEN IF t[i].s = <<"null">> THEN POk(Null, i + 1)
       ELSE IF t[i].s \in {<<"true">>, <<"false">>} THEN POk(Bool(t[i].s = <<"true">>), i + 1)
       ELSE IF t[i].s # <<>> /\ \A d \in 1..Len(t[i].s) : t[i].s[d] \in Digits
       THEN POk(Num(t[i].s), i + 1)
       ELSE PFail
  ELSE IF IsPunct(t, i, "{")
  THEN IF IsPunct(t, SkipWs(t, i + 1), "}") THEN POk(EmptyObj, SkipWs(t, i + 1) + 1)
       ELSE ParseMembers(t, i + 1, EmptyObj)
  ELSE IF IsPunct(t, i, "[")
  THEN IF IsPunct(t, SkipWs(t, i + 1), "]") THEN POk(Arr(<<>>), SkipWs(t, i + 1) + 1)
       ELSE ParseElements(t, i + 1, <<>>)
  ELSE PFail

\* JSON.parse(text): [ok, v]; ok = FALSE is a thrown SyntaxError.
JSONparse(t) ==
  LET r == ParseValue(t, 1) IN
  IF r.ok /\ SkipWs(t, r.i) = Len(t) + 1 THEN [ok |-> TRUE, v |-> r.v]
  ELSE [ok |-> FALSE, v |-> Undef]

(***************************************************************************)
(* Key paths (lib/keypath.js) and the key-path-helpers accessors.          *)
(***************************************************************************)
\* isKeyPath: a string, or a non-empty array whose last element is a key path.
RECURSIVE isKeyPath(_)
isKeyPath(v) ==
  \/ v.ty = "str"
  \/ /\ v.ty = "arr"
     /\ v.kv # <<>>
     /\ isKeyPath(v.kv[Len(v.kv)].v)

\* flattenKeyPath: the leaf strings joined with '.'.
RECURSIVE flattenChars(_)
RECURSIVE JoinEls(_, _)
JoinEls(els, i) ==
  IF i > Len(els) THEN <<>>
  ELSE (IF i = 1 THEN <<>> ELSE <<".">>) \o flattenChars(els[i].v) \o JoinEls(els, i + 1)

flattenChars(v) == IF v.ty = "arr" THEN JoinEls(v.kv, 1) ELSE v.s

flattenKeyPath(v) == Str(flattenChars(v))

\* splitKeyPath: split at every '.' that is not preceded by a backslash; the
\* escape "\." becomes a literal '.' of the segment.
RECURSIVE SplitFrom(_, _, _, _)
SplitFrom(c, i, cur, acc) ==
  IF i > Len(c) THEN Append(acc, cur)
  ELSE IF c[i] = "\\" /\ i < Len(c) /\ c[i + 1] = "."
  THEN SplitFrom(c, i + 2, Append(cur, "."), acc)
  ELSE IF c[i] = "." THEN SplitFrom(c, i + 1, <<>>, Append(acc, cur))
  ELSE SplitFrom(c, i + 1, Append(cur, c[i]), acc)

splitKeyPath(kp) == IF kp.ty = "str" THEN SplitFrom(kp.s, 1, <<>>, <<>>) ELSE <<>>

\* keyPathHelpers.getValueAtKeyPath(obj, keyPath)
RECURSIVE GetAt(_, _, _)
GetAt(o, keys, i) ==
  IF i > Len(keys) THEN o
  ELSE IF o.ty # "obj" THEN Undef
  ELSE GetAt(Prop(o, keys[i]), keys, i + 1)

kphGetValueAtKeyPath(obj, kp) == IF ~Truthy(kp) THEN obj ELSE GetAt(obj, splitKeyPath(kp), 1)

\* keyPathHelpers.hasKeyPath(obj, keyPath)
RECURSIVE HasAt(_, _, _)
HasAt(o, keys, i) ==
  IF i > Len(keys) THEN TRUE
  ELSE IF ~HasOwn(o, keys[i]) THEN FALSE
  ELSE HasAt(Prop(o, keys[i]), keys, i + 1)

kphHasKeyPath(obj, kp) == HasAt(obj, splitKeyPath(kp), 1)

\* keyPathHelpers.setValueAtKeyPath(obj, keyPath, val): the object after the
\* in-place assignment.  A missing or non-mapping intermediate becomes {}.
RECURSIVE SetAt(_, _, _, _)
SetAt(o, keys, i, val) ==
  IF i = Len(keys) THEN PutProp(o, keys[i], val)
  ELSE LET child == Prop(o, keys[i])
           next == IF child.ty = "obj" THEN child ELSE EmptyObj
       IN  PutProp(o, keys[i], SetAt(next, keys, i + 1, val))

kphSetValueAtKeyPathKeep(obj, kp, val) ==
  IF obj.ty # "obj" \/ splitKeyPath(kp) = <<>> THEN obj
  ELSE IF /\ Len(splitKeyPath(kp)) > 1 /\ HasOwn(obj, splitKeyPath(kp)[1])
          /\ Prop(obj, splitKeyPath(kp)[1]).ty # "obj"
  THEN obj
  ELSE SetAt(obj, splitKeyPath(kp), 1, val)

kphSetValueAtKeyPath(obj, kp, val) ==
  IF obj.ty # "obj" \/ splitKeyPath(kp) = <<>> THEN obj
  ELSE SetAt(obj, splitKeyPath(kp), 1, val)

\* keyPathHelpers.deleteValueAtKeyPath(obj, keyPath): the object after the
\* in-place delete; a path that does not resolve is left alone.
RECURSIVE DeleteAt(_, _, _)
DeleteAt(o, keys, i) ==
  IF o.ty # "obj" THEN o
  ELSE IF i = Len(keys) THEN DelProp(o, keys[i])
  ELSE IF ~HasOwn(o, keys[i]) THEN o
  ELSE PutProp(o, keys[i], DeleteAt(Prop(o, keys[i]), keys, i + 1))

kphDeleteValueAtKeyPath(obj, kp) ==
  IF splitKeyPath(kp) = <<>> THEN obj ELSE DeleteAt(obj, splitKeyPath(kp), 1)

(***************************************************************************)
(* Configuration.                                                          *)
(***************************************************************************)
ConfigFields ==
  {"atomicSave", "dir", "encryptionAlgorithm", "encryptionKey", "fileName",
   "numSpaces", "prettify"}

\* lib/defaults.js; "" stands for null.
defaults ==
  [atomicSave |-> TRUE, dir |-> "", encryptionAlgorithm |-> "aes-256-cbc",
   encryptionKey |-> "", fileName |-> "settings.json", numSpaces |-> 2,
   prettify |-> FALSE]

\* Object.assign({}, a, b): b's fields over a's.
Assign(a, b) ==
  [f \in (DOMAIN a) \cup (DOMAIN b) |-> IF f \in DOMAIN b THEN b[f] ELSE a[f]]

\* configure(opts): the new configuration, Object.assign({}, defaults, config, opts)
\* with d the defaults object.
configureOntoDefaults(d, cfg, opts) == Assign(d, opts)
configure(d, cfg, opts) == Assign(Assign(d, cfg), opts)

\* reset(): the new configuration, Object.assign({}, defaults).
reset(d) == Assign([x \in {} |-> 0], d)

\* app.getPath('userData')
UserData == "userData"

getSettingsDirPathDefault(cfg) == UserData
getSettingsDirPath(cfg) == IF cfg.dir # "" THEN cfg.dir ELSE UserData

\* path.join(dir, fileName)
getSettingsFilePath(cfg) == <<getSettingsDirPath(cfg), cfg.fileName>>

(***************************************************************************)
(* Bytes.  A file holds a sequence of units [alg, key, t]: token t as      *)
(* written in the clear (alg = key = "") or as enciphered under alg, key.  *)
(***************************************************************************)
Unit(alg, key, t) == [alg |-> alg, key |-> key, t |-> t]
Plain(toks) == [i \in 1..Len(toks) |-> Unit("", "", toks[i])]
Garbage == Tok("lit", <<"?">>)

\* encryptData(data): the cipher output under the configured algorithm and key.
encryptData(toks, cfg) ==
  [i \in 1..Len(toks) |-> Unit(cfg.encryptionAlgorithm, cfg.encryptionKey, toks[i])]

\* decryptData(buffer): [ok, t]; deciphering bytes that are not the cipher's
\* output under this algorithm and key throws.
decryptData(bytes, cfg) ==
  IF \A i \in 1..Len(bytes) :
       bytes[i].alg = cfg.encryptionAlgorithm /\ bytes[i].key = cfg.encryptionKey
  THEN [ok |-> TRUE, t |-> [i \in 1..Len(bytes) |-> bytes[i].t]]
  ELSE [ok |-> FALSE, t |-> <<>>]

\* Reading bytes as UTF-8 text: cipher output is not JSON text.
Utf8(bytes) ==
  [i \in 1..Len(bytes) |-> IF bytes[i].alg = "" THEN bytes[i].t ELSE Garbage]

\* prepareSettingsData(obj): [err, def, b]; err = TRUE is a thrown TypeError
\* (Buffer.from(undefined)), def = FALSE is the value undefined.
prepareSettingsDataPlain(obj, cfg) ==
  LET numSpaces == IF cfg.prettify THEN cfg.numSpaces ELSE 0
      data == JSONstringify(obj, numSpaces)
  IN  [err |-> FALSE, def |-> data.def, b |-> Plain(data.b)]

prepareSettingsDataAlwaysPretty(obj, cfg) ==
  LET numSpaces == cfg.numSpaces
      data == JSONstringify(obj, numSpaces)
  IN  IF cfg.encryptionKey # ""
      THEN IF data.def THEN [err |-> FALSE, def |-> TRUE, b |-> encryptData(data.b, cfg)]
           ELSE [err |-> TRUE, def |-> FALSE, b |-> <<>>]
      ELSE [err |-> FALSE, def |-> data.def, b |-> Plain(data.b)]

prepareSettingsData(obj, cfg) ==
  LET numSpaces == IF cfg.prettify THEN cfg.numSpaces ELSE 0
      data == JSONstringify(obj, numSpaces)
  IN  IF cfg.encryptionKey # ""
      THEN IF data.def THEN [err |-> FALSE, def |-> TRUE, b |-> encryptData(data.b, cfg)]
           ELSE [err |-> TRUE, def |-> FALSE, b |-> <<>>]
      ELSE [err |-> FALSE, def |-> data.def, b |-> Plain(data.b)]

\* reconstructSettingsData(data): [ok, v]; ok = FALSE is a thrown error.
reconstructSettingsDataNoDecrypt(bytes, cfg) == JSONparse(Utf8(bytes))

reconstructSettingsData(bytes, cfg) ==
  IF cfg.encryptionKey # ""
  THEN LET d == decryptData(bytes, cfg) IN
       IF d.ok THEN JSONparse(d.t) ELSE [ok |-> FALSE, v |-> Undef]
  ELSE JSONparse(Utf8(bytes))

(***************************************************************************)
(* The file system: the set of existing directories and, per path, whether *)
(* the file exists and the bytes it holds.                                 *)
(***************************************************************************)
DirNames == {UserData, "d1"}
FileNames == {"settings.json"}
Paths == DirNames \X FileNames
NoPath == <<"", "">>
NoFile == [ex |-> FALSE, b |-> <<>>]
File(bytes) == [ex |-> TRUE, b |-> bytes]

\* writeFileAtomic: write a temporary file, then rename it over the target.
FsReplace(fl, path, bytes) == [fl EXCEPT ![path] = File(bytes)]
\* open(path, 'w'): create or truncate.
FsTruncate(fl, path) == [fl EXCEPT ![path] = File(<<>>)]
\* write(fd, bytes) at offset 0 of the open file: bytes beyond stay.
FsOverwrite(fl, path, bytes) ==
  [fl EXCEPT ![path] = File(bytes \o SubSeq(fl[path].b, Len(bytes) + 1, Len(fl[path].b)))]

\* A rename over path leaves every handle that fs.writeFile holds open on the
\* old file pointing at a file that no longer has a name.
Orphaned(os, path) ==
  [p \in DOMAIN os |->
     IF os[p].pc = "write" /\ os[p].filePath = path THEN [os[p] EXCEPT !.orphan = TRUE]
     ELSE os[p]]

\* What a write of the value undefined leaves behind depends on the file
\* library: it throws, writes nothing, or writes the text "undefined".
UndefinedWrites == {"throw", "empty", "text"}
UndefinedBytes(u) == IF u = "text" THEN Plain(<<Tok("lit", <<"undefined">>)>>) ELSE <<>>

NoData == [def |-> TRUE, b |-> <<>>]

(***************************************************************************)
(* One call of the public API.                                             *)
(***************************************************************************)
Idle ==
  [kind |-> "idle", sync |-> FALSE, args |-> <<>>, keyPath |-> Null, val |-> Undef,
   fn |-> Undef, pc |-> "idle", cont |-> "", filePath |-> NoPath, dir |-> "",
   data |-> NoData, utf8 |-> FALSE, atomic |-> FALSE, orphan |-> FALSE, status |-> "",
   err |-> "",
   stage |-> "", result |-> Undef, cb |-> 0, io |-> 0, w |-> 0, saved |-> FALSE,
   found |-> "", flt |-> FALSE, loaded |-> Undef, cfg0 |-> defaults]

Arg(args, i) == IF i <= Len(args) THEN args[i] ELSE Undef

\* get / set (and their Sync variants): a first argument that is a key path is
\* flattened in place, otherwise null is inserted in front of the arguments.
optionalKeyPathArgsReplace(args) ==
  IF isKeyPath(Arg(args, 1)) THEN <<flattenKeyPath(args[1])>> \o Tail(args)
  ELSE <<Null>> \o (IF args = <<>> THEN <<>> ELSE Tail(args))

optionalKeyPathArgsNoFlatten(args) ==
  IF isKeyPath(Arg(args, 1)) THEN args ELSE <<Null>> \o args

optionalKeyPathArgs(args) ==
  IF isKeyPath(Arg(args, 1)) THEN <<flattenKeyPath(args[1])>> \o Tail(args)
  ELSE <<Null>> \o args

\* A string, or a non-empty array of which every element is such a value.
RECURSIVE StringLeaves(_)
StringLeaves(v) ==
  \/ v.ty = "str"
  \/ /\ v.ty = "arr" /\ v.kv # <<>>
     /\ \A i \in 1..Len(v.kv) : StringLeaves(v.kv[i].v)

\* has / unset (and their Sync variants): [throws, args].
requiredKeyPathArgsStrict(args) ==
  IF StringLeaves(Arg(args, 1))
  THEN [throws |-> FALSE, args |-> <<flattenKeyPath(args[1])>> \o Tail(args)]
  ELSE [throws |-> TRUE, args |-> args]

requiredKeyPathArgsLenient(args) == [throws |-> FALSE, args |-> optionalKeyPathArgs(args)]

requiredKeyPathArgs(args) ==
  IF isKeyPath(Arg(args, 1))
  THEN [throws |-> FALSE, args |-> <<flattenKeyPath(args[1])>> \o Tail(args)]
  ELSE [throws |-> TRUE, args |-> args]

\* A call that has ended: nothing of its pending I/O step is left.
Settled(o) ==
  [o EXCEPT !.pc = "done", !.cont = "", !.filePath = NoPath, !.dir = "", !.data = NoData,
            !.utf8 = FALSE, !.atomic = FALSE, !.orphan = FALSE, !.cfg0 = defaults]

\* Invoking the caller's callback fn(err, result).  A value that is not a
\* function cannot be called: the TypeError escapes to the caller when the
\* call is still on the caller's stack (inCall), and is uncaught otherwise.
Deliver(o, status, err, stage, result, inCall) ==
  IF o.fn.ty = "fn"
  THEN [Settled(o) EXCEPT !.status = IF ~Throws(o.fn) THEN status
                                     ELSE IF inCall THEN "threw" ELSE "crash",
                          !.err = err, !.stage = stage,
                          !.result = result, !.cb = @ + 1]
  ELSE [Settled(o) EXCEPT !.status = IF inCall THEN "threw" ELSE "crash",
                          !.err = "type", !.stage = stage]

\* An error that reaches the callback of saveSettings: the save made by
\* ensureSettingsFile is part of the load, the other one is the save step.
FailSaveSwallow(o, err, inCall) == Deliver(o, "ok", "", "", Undef, inCall)

FailSave(o, err, inCall) ==
  Deliver(o, "err", err, IF o.cont = "ensure" THEN "load" ELSE "save", Undef, inCall)

\* saveSettings(obj, fn) up to its first I/O request, the stat of the directory
\* made by ensureSettingsDir.
saveSettings(o, cfg, obj, cont, inCall) ==
  LET d == prepareSettingsData(obj, cfg)
      o1 == [o EXCEPT !.cont = cont, !.saved = @ \/ cont = "final"]
  IN  IF d.err THEN FailSave(o1, "type", inCall)
      ELSE [o1 EXCEPT !.pc = "statDir", !.data = [def |-> d.def, b |-> d.b],
                      !.filePath = getSettingsFilePath(cfg),
                      !.dir = getSettingsDirPath(cfg), !.io = @ + 1]

\* ensureSettingsFile(fn) up to its I/O request, the stat of the file.
ensureSettingsFile(o, cfg) ==
  [o EXCEPT !.pc = "statFile", !.filePath = getSettingsFilePath(cfg), !.io = @ + 1]

\* readSettingsFile(fn) up to its I/O request, the read of the file.
readSettingsFile(o, cfg) ==
  [o EXCEPT !.pc = "read", !.filePath = getSettingsFilePath(cfg),
            !.utf8 = (cfg.encryptionKey = ""), !.io = @ + 1, !.cont = "",
            !.dir = "", !.data = NoData, !.atomic = FALSE]

\* setValueAtKeyPath(keyPath, val, fn) up to its first I/O request.
setValueAtKeyPathAlwaysLoad(o, cfg) == ensureSettingsFile(o, cfg)

setValueAtKeyPath(o, cfg) ==
  IF Truthy(o.keyPath) THEN ensureSettingsFile(o, cfg)
  ELSE saveSettings(o, cfg, o.val, "final", TRUE)

\* The callback that get / has / set / unset pass to loadSettings, called
\* with a loaded document.
mutateNothing(o, obj) == obj

mutateFresh(o, obj) ==
  IF o.kind = "set" THEN kphSetValueAtKeyPath(EmptyObj, o.keyPath, o.val)
  ELSE kphDeleteValueAtKeyPath(EmptyObj, o.keyPath)

mutate(o, obj) ==
  IF o.kind = "set" THEN kphSetValueAtKeyPath(obj, o.keyPath, o.val)
  ELSE kphDeleteValueAtKeyPath(obj, o.keyPath)

answerCached(o, obj) ==
  IF o.kind = "has" THEN (IF kphHasKeyPath(o.loaded, o.keyPath) THEN Num(<<"1">>) ELSE Num(<<"0">>))
  ELSE IF Truthy(o.keyPath) THEN kphGetValueAtKeyPath(o.loaded, o.keyPath)
  ELSE o.loaded

answerNullAbsent(o, obj) ==
  IF o.kind = "has"
  THEN (IF kphHasKeyPath(obj, o.keyPath) /\ kphGetValueAtKeyPath(obj, o.keyPath) # Null
        THEN Num(<<"1">>) ELSE Num(<<"0">>))
  ELSE IF Truthy(o.keyPath) THEN kphGetValueAtKeyPath(obj, o.keyPath)
  ELSE obj

answer(o, obj) ==
  IF o.kind = "has" THEN (IF kphHasKeyPath(obj, o.keyPath) THEN Num(<<"1">>) ELSE Num(<<"0">>))
  ELSE IF Truthy(o.keyPath) THEN kphGetValueAtKeyPath(obj, o.keyPath)
  ELSE obj

onLoadedSaves(o, cfg, obj) ==
  saveSettings([o EXCEPT !.loaded = obj], cfg,
               IF o.kind \in {"get", "has"} THEN obj ELSE mutate(o, obj), "final", FALSE)

onLoaded(o, cfg, obj) ==
  IF o.kind \in {"get", "has"} THEN Deliver(o, "ok", "", "", answer(o, obj), FALSE)
  ELSE saveSettings([o EXCEPT !.loaded = obj], cfg, mutate(o, obj), "final", FALSE)

\* The public entry points get / has / set / unset: the call record after the
\* synchronous part of the call.
Enter(kind, args, cfg) ==
  LET o0 == [Idle EXCEPT !.kind = kind, !.args = args, !.cfg0 = cfg] IN
  IF kind \in {"has", "unset"}
  THEN LET r == requiredKeyPathArgs(args) IN
       IF r.throws
       THEN [Settled(o0) EXCEPT !.status = "threw", !.err = "type"]
       ELSE ensureSettingsFile([o0 EXCEPT !.keyPath = r.args[1], !.fn = Arg(r.args, 2)], cfg)
  ELSE LET a == optionalKeyPathArgs(args) IN
       IF kind = "get"
       THEN ensureSettingsFile([o0 EXCEPT !.keyPath = a[1], !.fn = Arg(a, 2)], cfg)
       ELSE setValueAtKeyPath([o0 EXCEPT !.keyPath = a[1], !.val = Arg(a, 2),
                                          !.fn = Arg(a, 3)], cfg)

(***************************************************************************)
(* The synchronous variants.  A context x carries the file system through  *)
(* the blocking calls of one operation: n counts the I/O calls made, the   *)
(* call number flt (0: none) fails with an I/O error, part tells whether a *)
(* failing direct write had already truncated the file, u is the outcome   *)
(* of writing undefined.  err # "" is a thrown error.                      *)
(***************************************************************************)
Ctx(d, fl, flt, part, u) ==
  [dirs |-> d, files |-> fl, n |-> 0, flt |-> flt, part |-> part, u |-> u,
   err |-> "", stage |-> "", v |-> Undef, w |-> 0, saved |-> FALSE, found |-> "",
   loaded |-> Undef]

IoFails(x) == x.n + 1 = x.flt
Tick(x) == [x EXCEPT !.n = @ + 1]
Throw(x, err) == [x EXCEPT !.err = err]
Thrown(x) == x.err # ""

\* The stage at which a thrown error left the operation.
AtStage(x, stage) == IF Thrown(x) THEN [x EXCEPT !.stage = stage] ELSE x

ensureSettingsDirSync(x, cfg) ==
  LET dir == getSettingsDirPath(cfg) IN
  IF IoFails(x) THEN Throw(Tick(x), "io")
  ELSE LET x1 == Tick(x) IN
       IF dir \in x1.dirs THEN x1
       ELSE IF IoFails(x1) THEN Throw(Tick(x1), "io")
       ELSE [Tick(x1) EXCEPT !.dirs = @ \cup {dir}]

\* writeFileAtomic.sync or fs.writeFileSync, as config.atomicSave says, in the
\* context x that ensureSettingsDirSync returned.
writeFileSync(x, data, cfg) ==
  LET filePath == getSettingsFilePath(cfg) IN
  IF Thrown(x) THEN x
  ELSE IF ~data.def
  THEN IF x.u = "throw" THEN Throw(Tick(x), "type")
       ELSE [Tick(x) EXCEPT !.files = FsReplace(@, filePath, UndefinedBytes(x.u)),
                            !.w = @ + 1]
  ELSE IF IoFails(x)
  THEN IF ~cfg.atomicSave /\ x.part
       THEN [Throw(Tick(x), "io") EXCEPT !.files = FsTruncate(@, filePath), !.w = @ + 1]
       ELSE Throw(Tick(x), "io")
  ELSE IF cfg.atomicSave
  THEN [Tick(x) EXCEPT !.files = FsReplace(@, filePath, data.b), !.w = @ + 1]
  ELSE [Tick(x) EXCEPT !.files = FsOverwrite(FsTruncate(@, filePath), filePath, data.b),
                       !.w = @ + 1]

writeSettingsFileSync(x, data, cfg) ==
  writeFileSync(ensureSettingsDirSync(x, cfg), data, cfg)

\* saveSettingsSync once prepareSettingsData has returned d or thrown.
writePrepared(x, d, cfg) ==
  IF d.err THEN Throw(x, "type")
  ELSE writeSettingsFileSync(x, [def |-> d.def, b |-> d.b], cfg)

saveSettingsSync(x, obj, cfg) == writePrepared(x, prepareSettingsData(obj, cfg), cfg)

ensureSettingsFileSyncNoCreate(x, cfg) ==
  LET filePath == getSettingsFilePath(cfg) IN
  IF IoFails(x) THEN Throw(Tick(x), "io")
  ELSE [Tick(x) EXCEPT !.found = IF x.files[filePath].ex THEN "yes" ELSE "no"]

ensureSettingsFileSync(x, cfg) ==
  LET filePath == getSettingsFilePath(cfg) IN
  IF IoFails(x) THEN Throw(Tick(x), "io")
  ELSE IF x.files[filePath].ex THEN [Tick(x) EXCEPT !.found = "yes"]
  ELSE saveSettingsSync([Tick(x) EXCEPT !.found = "no"], EmptyObj, cfg)

\* readSettingsFileSync once reconstructSettingsData has returned r.v or
\* thrown.
returnParsed(x, r) == IF r.ok THEN [x EXCEPT !.v = r.v] ELSE Throw(x, "parse")

\* readSettingsFileSync in the context x that ensureSettingsFileSync returned.
readSettingsFileSync(x, cfg) ==
  LET filePath == getSettingsFilePath(cfg) IN
  IF Thrown(x) THEN x
  ELSE IF IoFails(x) \/ ~x.files[filePath].ex THEN Throw(Tick(x), "io")
  ELSE returnParsed(Tick(x),
         reconstructSettingsData(IF cfg.encryptionKey = ""
                                 THEN Plain(Utf8(x.files[filePath].b))
                                 ELSE x.files[filePath].b, cfg))

loadSettingsSync(x, cfg) ==
  AtStage(readSettingsFileSync(ensureSettingsFileSync(x, cfg), cfg), "load")

\* getValueAtKeyPathSync in the context x that loadSettingsSync returned.
returnValueAt(x, keyPath) ==
  IF Thrown(x) THEN x
  ELSE IF Truthy(keyPath) THEN [x EXCEPT !.v = kphGetValueAtKeyPath(x.v, keyPath)]
  ELSE x

getValueAtKeyPathSync(x, keyPath, cfg) == returnValueAt(loadSettingsSync(x, cfg), keyPath)

\* hasKeyPathSync in the context x that loadSettingsSync returned.
returnHas(x, keyPath) ==
  IF Thrown(x) THEN x
  ELSE [x EXCEPT !.v = IF kphHasKeyPath(x.v, keyPath) THEN Num(<<"1">>) ELSE Num(<<"0">>)]

hasKeyPathSync(x, keyPath, cfg) == returnHas(loadSettingsSync(x, cfg), keyPath)

\* The saveSettingsSync that ends setValueAtKeyPathSync and
\* unsetValueAtKeyPathSync.
FinalSaveSync(x, obj, cfg) ==
  AtStage(saveSettingsSync([x EXCEPT !.saved = TRUE, !.v = Undef], obj, cfg), "save")

\* setValueAtKeyPathSync in the context x that loadSettingsSync returned.
saveSet(x, keyPath, val, cfg) ==
  IF Thrown(x) THEN x
  ELSE FinalSaveSync([x EXCEPT !.loaded = x.v], kphSetValueAtKeyPath(x.v, keyPath, val), cfg)

setValueAtKeyPathSync(x, keyPath, val, cfg) ==
  IF Truthy(keyPath) THEN saveSet(loadSettingsSync(x, cfg), keyPath, val, cfg)
  ELSE FinalSaveSync(x, val, cfg)

\* unsetValueAtKeyPathSync in the context x that loadSettingsSync returned.
saveUnset(x, keyPath, cfg) ==
  IF Thrown(x) THEN x
  ELSE FinalSaveSync([x EXCEPT !.loaded = x.v], kphDeleteValueAtKeyPath(x.v, keyPath), cfg)

unsetValueAtKeyPathSyncNoSave(x, keyPath, cfg) ==
  returnValueAt(loadSettingsSync(x, cfg), Null)

unsetValueAtKeyPathSync(x, keyPath, cfg) == saveUnset(loadSettingsSync(x, cfg), keyPath, cfg)

\* getSync / hasSync / setSync / unsetSync: the context after the call, with
\* the normalised key path and value.
EnterSync(kind, args, x, cfg) ==
  IF kind \in {"has", "unset"}
  THEN LET r == requiredKeyPathArgs(args) IN
       IF r.throws THEN [x |-> Throw(x, "type"), keyPath |-> Null, val |-> Undef]
       ELSE [x |-> IF kind = "has" THEN hasKeyPathSync(x, r.args[1], cfg)
                   ELSE unsetValueAtKeyPathSync(x, r.args[1], cfg),
             keyPath |-> r.args[1], val |-> Undef]
  ELSE LET a == optionalKeyPathArgs(args) IN
       IF kind = "get"
       THEN [x |-> getValueAtKeyPathSync(x, a[1], cfg), keyPath |-> a[1], val |-> Undef]
       ELSE [x |-> setValueAtKeyPathSync(x, a[1], Arg(a, 2), cfg),
             keyPath |-> a[1], val |-> Arg(a, 2)]

\* The record of a completed synchronous call.
DoneSync(kind, args, r, cfg) ==
  [Idle EXCEPT !.kind = kind, !.sync = TRUE, !.args = args, !.keyPath = r.keyPath,
               !.val = r.val, !.pc = "done",
               !.status = IF r.x.err = "" THEN "ok" ELSE "threw",
               !.err = r.x.err, !.stage = r.x.stage, !.result = r.x.v, !.io = r.x.n,
               !.w = r.x.w, !.saved = r.x.saved, !.found = r.x.found,
               !.flt = (r.x.flt # 0), !.loaded = r.x.loaded]

(***************************************************************************)
(* The state machine.                                                      *)
(***************************************************************************)
VARIABLES
  config,    \* the module-level configuration
  dirs,      \* the directories that exist
  files,     \* the file at each path
  ops,       \* per call slot, the call in flight or the last one completed
  chain,     \* history: the set (and unset) that preceded the call in slot p1
  faults,    \* history: the number of I/O errors injected
  cfgCalls,  \* history: the number of configure / reset calls
  files0,    \* history: the files at start
  direct,    \* history: a write was requested while atomicSave was off
  mode,      \* the scenario explored: "seq", "flt", "conc", "kp", "cfg", "cb", "doc", "arg", "tree" or "codec"
  pre,       \* history: the directories and files when the last call was issued
  calls,     \* history: the configure / reset calls made, oldest first
  defaultsObj, \* the object bound to the module-level const defaults
  codec      \* a document taken through prepareSettingsData and back

vars ==
  <<config, dirs, files, ops, chain, faults, cfgCalls, files0, direct, mode, pre, calls,
    codec, defaultsObj>>

\* "seq": calls are issued one after the other, each after the last completed.
\* "flt": the same, and I/O steps may fail.
\* "conc": two calls overlap, and configure / reset run between their steps.
\* "kp": calls one after the other, with escaped and array key paths.
\* "cfg": configure and reset calls only.
\* "cb": calls one after the other, with callbacks that throw.
\* "doc": calls one after the other that replace and read the whole document.
\* "arg": calls one after the other whose first argument is an edge case.
\* "tree": calls one after the other on paths through scalars, null and arrays.
\* "codec": prepareSettingsData and reconstructSettingsData only.
seq == mode # "conc"

MaxFaults == 1
MaxConfigures == 1
MaxSyncIO == 7
MaxConfigOnly == 3

\* The number of configure / reset calls explored.
ConfigureBudget(m) == IF m = "cfg" THEN MaxConfigOnly ELSE MaxConfigures

\* The codec exercise before it starts.
NoCodec == [pc |-> "off", d |-> Undef, cfg |-> defaults, bytes |-> <<>>, r |-> Undef, ok |-> FALSE]

Procs == {"p1", "p2"}
Kinds == {"get", "has", "set", "unset"}

KA == Str(<<"a">>)
KAB == Str(<<"a", ".", "b">>)
KB == Str(<<"b">>)
Bad42 == Num(<<"4", "2">>)
One == Num(<<"1">>)
VObj == Obj(<<P(<<"c">>, Num(<<"2">>))>>)
DocA == Obj(<<P(<<"a">>, One)>>)
DocZ == Obj(<<P(<<"z">>, One)>>)
\* 'f\.b', [['a', 'b'], 'c'], ['a', ['b', 'c']] and 'a.b.c'
KEsc == Str(<<"f", "\\", ".", "b">>)
KNested == Arr(<<Arr(<<Str(<<"a">>), Str(<<"b">>)>>), Str(<<"c">>)>>)
KNested2 == Arr(<<Str(<<"a">>), Arr(<<Str(<<"b">>), Str(<<"c">>)>>)>>)
KABC == Str(<<"a", ".", "b", ".", "c">>)
KFBC == Str(<<"f", ".", "b", ".", "c">>)
\* 'hi', ['a', 'b'], [1, null] and the other values set as the whole document
Hi == Str(<<"h", "i">>)
ArrAB == Arr(<<Str(<<"a">>), Str(<<"b">>)>>)
ArrOneNull == Arr(<<One, Null>>)
WholeDocs == {DocA, Num(<<"5">>), Bool(TRUE), Bool(FALSE), Null, Hi, ArrAB, ArrOneNull, Arr(<<>>)}
\* '', [], [42, 'a'], [[42], 'a'], ['a', 42] and {"42": {a: 1}, z: 1}
EmptyStr == Str(<<>>)
EmptyArr == Arr(<<>>)
Arr42A == Arr(<<Bad42, KA>>)
ArrIn42A == Arr(<<Arr(<<Bad42>>), KA>>)
ArrA42 == Arr(<<KA, Bad42>>)
Doc42 == Obj(<<P(<<"4", "2">>, DocA), P(<<"z">>, One)>>)
\* 'b.c', {a: 1, z: 1}, {a: null} and {a: [1]}
KBC == Str(<<"b", ".", "c">>)
DocAZ == Obj(<<P(<<"a">>, One), P(<<"z">>, One)>>)
DocANull == Obj(<<P(<<"a">>, Null)>>)
DocAArr == Obj(<<P(<<"a">>, Arr(<<One>>))>>)
\* {f: {b: 2}, a: {b: {c: 2}}}
DocNested ==
  Obj(<<P(<<"f">>, Obj(<<P(<<"b">>, Num(<<"2">>))>>)),
        P(<<"a">>, Obj(<<P(<<"b">>, VObj)>>))>>)

\* The argument lists tried, without the trailing callback: the full menu when
\* calls are issued one after the other, a small one for overlapping calls.
ArgLists(kind, sync, m) ==
  IF m = "seq"
  THEN CASE kind = "get" -> {<<>>, <<KA>>, <<KAB>>}
         [] kind = "set" -> {<<KA, One>>, <<KAB, VObj>>, <<DocA>>, <<Undef, DocA>>}
         [] OTHER -> {<<KA>>, <<KAB>>, <<Bad42>>}
  ELSE IF m = "flt" THEN (IF kind = "set" THEN {<<KA, One>>} ELSE {<<KA>>})
  ELSE IF m = "kp"
  THEN CASE kind = "get" -> {<<KEsc>>, <<KNested>>, <<KABC>>}
         [] kind = "set" -> {<<KEsc, One>>, <<KNested, One>>, <<KNested2, VObj>>, <<KFBC, One>>}
         [] OTHER -> {<<KEsc>>, <<KNested2>>}
  ELSE IF m = "doc"
  THEN CASE kind = "get" -> {<<>>}
         [] kind = "set" -> IF sync THEN {<<d>> : d \in WholeDocs} ELSE {}
         [] OTHER -> {}
  ELSE IF m = "arg"
  THEN CASE kind = "get" -> {<<>>, <<Bad42>>, <<EmptyArr>>, <<EmptyStr>>}
         [] kind = "set" -> {<<DocA>>, <<EmptyStr, DocA>>}
         [] OTHER -> {<<Arr42A>>, <<ArrIn42A>>, <<ArrA42>>, <<EmptyArr>>}
  ELSE IF m = "tree"
  THEN CASE kind = "get" -> {<<KA>>, <<KAB>>}
         [] kind = "set" -> {<<KAB, One>>, <<KA, Null>>, <<KAB, Null>>}
         [] kind = "has" -> {<<KA>>, <<KAB>>, <<KB>>}
         [] OTHER -> {<<KB>>, <<KBC>>, <<KAB>>}
  ELSE IF sync THEN (IF kind = "has" THEN {<<KA>>} ELSE {})
  ELSE CASE kind = "get" -> {<<KA>>}
         [] kind = "set" -> {<<KA, One>>, <<KB, One>>}
         [] OTHER -> {}

ConfigureOpts(m) ==
  CASE m = "seq" -> {[encryptionKey |-> "k1"], [prettify |-> TRUE], [atomicSave |-> FALSE]}
    [] m = "flt" -> {[atomicSave |-> FALSE], [encryptionKey |-> "k1"]}
    [] m = "kp" -> {[atomicSave |-> FALSE]}
    [] m = "cfg" -> {[dir |-> "d1"], [dir |-> ""], [fileName |-> "foo.json"],
                     [dir |-> "d1", fileName |-> "bar.json"],
                     [encryptionKey |-> "k1", prettify |-> TRUE],
                     [atomicSave |-> FALSE, numSpaces |-> 4],
                     [x \in {} |-> 0]}
    [] OTHER -> {[dir |-> "d1"], [atomicSave |-> FALSE]}

\* {"z": 1} as enciphered under a key that is never configured.
CipherFile ==
  File(encryptData(JSONstringify(DocZ, 0).b, [defaults EXCEPT !.encryptionKey = "k2"]))

InitialFiles(m) ==
  IF m = "kp" THEN {NoFile, File(Plain(JSONstringify(DocNested, 0).b))}
  ELSE IF m = "tree"
  THEN {NoFile} \cup {File(Plain(JSONstringify(d, 0).b)) : d \in {DocAZ, DocANull, DocAArr}}
  ELSE IF m = "arg" THEN {NoFile, File(Plain(JSONstringify(Doc42, 0).b)), File(Plain(<<Garbage>>))}
  ELSE {NoFile, File(Plain(JSONstringify(DocZ, 0).b))}
       \cup (IF m = "conc" THEN {} ELSE {File(Plain(<<Garbage>>))})
       \cup (IF m = "flt" THEN {CipherFile} ELSE {})

NoPre == [dirs |-> {}, files |-> [q \in Paths |-> NoFile]]
NoChain ==
  [stage |-> 0, form |-> "", kp |-> Null, val |-> Undef, ok |-> FALSE, base |-> Undef,
   first |-> Undef]

InitMode(m) ==
  /\ mode = m
  /\ config = defaults
  /\ dirs \in {{}, {UserData}}
  /\ \E f \in InitialFiles(m) :
       /\ f.ex => UserData \in dirs
       /\ files = [q \in Paths |-> IF q = <<UserData, "settings.json">> THEN f ELSE NoFile]
  /\ ops = [p \in Procs |-> Idle]
  /\ chain = NoChain
  /\ faults = 0
  /\ cfgCalls = 0
  /\ files0 = files
  /\ direct = FALSE
  /\ pre = NoPre
  /\ calls = <<>>
  /\ codec = NoCodec
  /\ defaultsObj = defaults

Init == InitMode("conc")
InitSeq == InitMode("seq")
InitFault == InitMode("flt")

InFlight(o) == o.pc \notin {"idle", "done"}
NoneInFlight == \A p \in Procs : ~InFlight(ops[p])

\* The slot a new call takes.  Sequential calls reuse slot p1; overlapping
\* calls take p1, then p2.
FreeSlot(p) ==
  IF seq THEN p = "p1" /\ NoneInFlight
  ELSE /\ ops[p].pc = "idle"
       /\ p = "p2" => ops["p1"].pc # "idle"

\* How the form of a set call is recorded in the history.
SetForm(args) ==
  IF isKeyPath(Arg(args, 1)) THEN "kp"
  ELSE IF Arg(args, 1) = Undef /\ Len(args) >= 2 THEN "undef"
  ELSE "omit"

Promote(ch, d) ==
  IF d.pc # "done" THEN NoChain
  ELSE IF d.kind = "set"
  THEN [stage |-> 1, form |-> SetForm(d.args), kp |-> d.keyPath,
        val |-> IF SetForm(d.args) = "omit" THEN Arg(d.args, 1) ELSE Arg(d.args, 2),
        ok |-> d.status = "ok" /\ ~d.flt, base |-> d.loaded, first |-> Arg(d.args, 1)]
  ELSE IF /\ d.kind = "unset" /\ d.status = "ok" /\ ~d.flt
          /\ ch.stage = 1 /\ ch.form = "kp" /\ ch.ok /\ d.keyPath = ch.kp
  THEN [ch EXCEPT !.stage = 2]
  ELSE NoChain

\* The history kept when a new call is issued after the completed call d: only
\* what a call of this kind on this key path can continue.
ChainAfter(ch, d, kind, args) ==
  LET c == Promote(ch, d)
      kp == IF isKeyPath(Arg(args, 1)) THEN flattenKeyPath(args[1]) ELSE Null
  IN  IF \/ kind = "get" /\ c.stage = 1 /\ (kp = c.kp \/ mode = "doc")
         \/ kind = "unset" /\ c.stage = 1 /\ c.form = "kp" /\ c.ok /\ kp = c.kp
         \/ kind = "has" /\ c.stage = 2 /\ kp = c.kp
         \/ kind = "has" /\ c.stage = 1 /\ kp = c.kp /\ mode = "tree"
      THEN c
      ELSE NoChain

\* The callbacks the caller passes.
Callbacks(m) == IF m = "cb" THEN {Fn, FnThrows} ELSE {Fn}

\* get / has / set / unset with a callback: the synchronous part of the call.
Call(p, kind, args) ==
  /\ FreeSlot(p)
  /\ \E fn \in Callbacks(mode) :
       ops' = [ops EXCEPT ![p] = Enter(kind, Append(args, fn), config)]
  /\ chain' = IF seq THEN ChainAfter(chain, ops[p], kind, args) ELSE chain
  /\ pre' = IF seq THEN [dirs |-> dirs, files |-> files] ELSE pre
  /\ UNCHANGED <<config, dirs, files, faults, cfgCalls, files0, direct, mode, defaultsObj, calls, codec>>

\* The state after a synchronous call that ended in the context r.x.
CommitSync(p, kind, args, r, flt, u) ==
  /\ flt # 0 => r.x.n >= flt
  /\ u # "throw" => kind = "set" /\ ~Truthy(r.keyPath) /\ ~Serializable(r.val)
  /\ ops' = [IF r.x.w > 0 /\ config.atomicSave
             THEN Orphaned(ops, getSettingsFilePath(config)) ELSE ops
             EXCEPT ![p] = DoneSync(kind, args, r, config)]
  /\ dirs' = r.x.dirs
  /\ files' = r.x.files
  /\ faults' = IF flt # 0 THEN faults + 1 ELSE faults
  /\ direct' = (direct \/ (r.x.w > 0 /\ ~config.atomicSave))

\* getSync / hasSync / setSync / unsetSync.
CallSync(p, kind, args, flt, part, u) ==
  /\ FreeSlot(p)
  /\ flt # 0 => mode = "flt" /\ faults < MaxFaults
  /\ part => flt # 0 /\ ~config.atomicSave
  /\ u # "throw" => kind = "set" /\ ~isKeyPath(Arg(args, 1))
  /\ CommitSync(p, kind, args,
                EnterSync(kind, args, Ctx(dirs, files, flt, part, u), config), flt, u)
  /\ chain' = IF seq THEN ChainAfter(chain, ops[p], kind, args) ELSE chain
  /\ pre' = IF seq THEN [dirs |-> dirs, files |-> files] ELSE pre
  /\ UNCHANGED <<config, cfgCalls, files0, mode, defaultsObj, calls, codec>>

\* configure(opts)
ConfigureInPlace(opts) ==
  /\ cfgCalls < ConfigureBudget(mode)
  /\ seq => NoneInFlight
  /\ config' = configure(defaultsObj, config, opts)
  /\ defaultsObj' = configure(defaultsObj, config, opts)
  /\ cfgCalls' = cfgCalls + 1
  /\ ops' = IF seq THEN [p \in Procs |-> Idle] ELSE ops
  /\ chain' = NoChain
  /\ pre' = IF seq THEN NoPre ELSE pre
  /\ calls' = IF mode = "cfg" THEN Append(calls, [op |-> "configure", opts |-> opts]) ELSE calls
  /\ UNCHANGED <<dirs, files, faults, files0, direct, mode, codec>>
Configure(opts) ==
  /\ cfgCalls < ConfigureBudget(mode)
  /\ seq => NoneInFlight
  /\ config' = configure(defaultsObj, config, opts)
  /\ cfgCalls' = cfgCalls + 1
  /\ ops' = IF seq THEN [p \in Procs |-> Idle] ELSE ops
  /\ chain' = NoChain
  /\ pre' = IF seq THEN NoPre ELSE pre
  /\ calls' = IF mode = "cfg" THEN Append(calls, [op |-> "configure", opts |-> opts]) ELSE calls
  /\ UNCHANGED <<dirs, files, faults, files0, direct, mode, defaultsObj, codec>>

\* reset()
Reset ==
  /\ cfgCalls < ConfigureBudget(mode)
  /\ seq => NoneInFlight
  /\ config' = reset(defaultsObj)
  /\ cfgCalls' = cfgCalls + 1
  /\ ops' = IF seq THEN [p \in Procs |-> Idle] ELSE ops
  /\ chain' = NoChain
  /\ pre' = IF seq THEN NoPre ELSE pre
  /\ calls' = IF mode = "cfg" THEN Append(calls, [op |-> "reset", opts |-> [x \in {} |-> 0]]) ELSE calls
  /\ UNCHANGED <<dirs, files, faults, files0, direct, mode, defaultsObj, codec>>

\* An I/O step fails (f) only while the budget of injected errors lasts.
Fault(f) ==
  /\ f => mode = "flt" /\ faults < MaxFaults
  /\ faults' = IF f THEN faults + 1 ELSE faults

Faulted(o, f) == [o EXCEPT !.flt = @ \/ f]

\* ensureSettingsDir's callback on success: the write is requested, atomically
\* or not as the configuration says at that moment.
startWriteDirect(o, cfg) == [o EXCEPT !.pc = "open", !.atomic = FALSE, !.io = @ + 1]

startWrite(o, cfg) ==
  [o EXCEPT !.pc = IF cfg.atomicSave THEN "writeAtomic" ELSE "open",
            !.atomic = cfg.atomicSave, !.io = @ + 1]

\* The callback of saveSettings on success.
afterSave(o, cfg) ==
  IF o.cont = "ensure" THEN readSettingsFile(o, cfg)
  ELSE Deliver(o, "ok", "", "", Undef, FALSE)

Crash(o) == [Settled(o) EXCEPT !.status = "crash", !.err = "type"]

\* The stat of the settings file completes (ensureSettingsFile).
StatFile(p, f) ==
  /\ ops[p].pc = "statFile"
  /\ Fault(f)
  /\ LET o == Faulted(ops[p], f) IN
     ops' = [ops EXCEPT ![p] =
       IF f THEN Deliver(o, "err", "io", "load", Undef, FALSE)
       ELSE IF files[o.filePath].ex THEN readSettingsFile([o EXCEPT !.found = "yes"], config)
       ELSE saveSettings([o EXCEPT !.found = "no"], config, EmptyObj, "ensure", FALSE)]
  /\ UNCHANGED <<config, dirs, files, chain, cfgCalls, files0, direct, mode, defaultsObj, pre, calls, codec>>

\* The stat of the settings directory completes (ensureSettingsDir).
StatDir(p, f) ==
  /\ ops[p].pc = "statDir"
  /\ Fault(f)
  /\ LET o == Faulted(ops[p], f) IN
     ops' = [ops EXCEPT ![p] =
       IF f THEN FailSave(o, "io", FALSE)
       ELSE IF o.dir \in dirs THEN startWrite(o, config)
       ELSE [o EXCEPT !.pc = "mkdir", !.io = @ + 1]]
  /\ direct' = (direct \/ (~f /\ ops[p].dir \in dirs /\ ~config.atomicSave))
  /\ UNCHANGED <<config, dirs, files, chain, cfgCalls, files0, mode, defaultsObj, pre, calls, codec>>

\* mkdirp completes.
MkdirExclusive(p, f) ==
  /\ ops[p].pc = "mkdir"
  /\ Fault(f)
  /\ LET o == Faulted(ops[p], f) IN
     /\ ops' = [ops EXCEPT ![p] = IF f \/ o.dir \in dirs THEN FailSave(o, "io", FALSE)
                                  ELSE startWrite(o, config)]
     /\ dirs' = IF f THEN dirs ELSE dirs \cup {o.dir}
  /\ direct' = (direct \/ (~f /\ ~config.atomicSave))
  /\ UNCHANGED <<config, files, chain, cfgCalls, files0, mode, defaultsObj, pre, calls, codec>>

Mkdir(p, f) ==
  /\ ops[p].pc = "mkdir"
  /\ Fault(f)
  /\ LET o == Faulted(ops[p], f) IN
     /\ ops' = [ops EXCEPT ![p] = IF f THEN FailSave(o, "io", FALSE) ELSE startWrite(o, config)]
     /\ dirs' = IF f THEN dirs ELSE dirs \cup {o.dir}
  /\ direct' = (direct \/ (~f /\ ~config.atomicSave))
  /\ UNCHANGED <<config, files, chain, cfgCalls, files0, mode, defaultsObj, pre, calls, codec>>

\* writeFileAtomic completes.
WriteAtomic(p, f, u) ==
  /\ ops[p].pc = "writeAtomic"
  /\ Fault(f)
  /\ u # "throw" => ~ops[p].data.def /\ ~f
  /\ LET o == Faulted(ops[p], f) IN
     IF ~o.data.def /\ ~f
     THEN IF u = "throw" THEN ops' = [ops EXCEPT ![p] = Crash(o)] /\ files' = files
          ELSE /\ files' = FsReplace(files, o.filePath, UndefinedBytes(u))
               /\ ops' = [Orphaned(ops, o.filePath) EXCEPT
                            ![p] = afterSave([o EXCEPT !.w = @ + 1], config)]
     ELSE IF f THEN ops' = [ops EXCEPT ![p] = FailSave(o, "io", FALSE)] /\ files' = files
     ELSE /\ files' = FsReplace(files, o.filePath, o.data.b)
          /\ ops' = [Orphaned(ops, o.filePath) EXCEPT
                       ![p] = afterSave([o EXCEPT !.w = @ + 1], config)]
  /\ UNCHANGED <<config, dirs, chain, cfgCalls, files0, direct, mode, defaultsObj, pre, calls, codec>>

\* fs.writeFile opens the file for writing, which truncates it.
Open(p, f, u) ==
  /\ ops[p].pc = "open"
  /\ Fault(f)
  /\ u # "throw" => ~ops[p].data.def /\ ~f
  /\ LET o == Faulted(ops[p], f) IN
     IF ~o.data.def /\ ~f /\ u = "throw"
     THEN ops' = [ops EXCEPT ![p] = Crash(o)] /\ files' = files
     ELSE IF f THEN ops' = [ops EXCEPT ![p] = FailSave(o, "io", FALSE)] /\ files' = files
     ELSE /\ files' = FsTruncate(files, o.filePath)
          /\ ops' = [ops EXCEPT ![p] =
               [o EXCEPT !.pc = "write", !.w = @ + 1, !.orphan = FALSE,
                         !.data = IF o.data.def THEN o.data
                                  ELSE [def |-> TRUE, b |-> UndefinedBytes(u)]]]
  /\ UNCHANGED <<config, dirs, chain, cfgCalls, files0, direct, mode, defaultsObj, pre, calls, codec>>

\* fs.writeFile writes the data into the open file and completes.
Write(p, f) ==
  /\ ops[p].pc = "write"
  /\ Fault(f)
  /\ LET o == Faulted(ops[p], f) IN
     IF f THEN ops' = [ops EXCEPT ![p] = FailSave(o, "io", FALSE)] /\ files' = files
     ELSE /\ files' = IF o.orphan THEN files ELSE FsOverwrite(files, o.filePath, o.data.b)
          /\ ops' = [ops EXCEPT ![p] = afterSave(o, config)]
  /\ UNCHANGED <<config, dirs, chain, cfgCalls, files0, direct, mode, defaultsObj, pre, calls, codec>>

\* The catch block of readSettingsFile: o1 is the call after fn(null, obj) ran
\* in the try block.  When the caller's callback was invoked in there and
\* threw, the error is caught and passed to fn, which invokes the caller's
\* callback again; its second throw is uncaught.
caught(o, o1) ==
  IF o1.pc = "done" /\ o1.cb > o.cb /\ Throws(o.fn)
  THEN [o1 EXCEPT !.cb = @ + 1, !.status = "crash"]
  ELSE o1

\* The callback readSettingsFile passes to fs.readFile, called with the data.
readCallbackOrEmpty(o, cfg, data) ==
  LET r == reconstructSettingsData(data, cfg) IN
  IF r.ok THEN onLoaded(o, cfg, r.v) ELSE onLoaded(o, cfg, EmptyObj)

readCallback(o, cfg, data) ==
  LET r == reconstructSettingsData(data, cfg) IN
  IF r.ok THEN caught(o, onLoaded(o, cfg, r.v))
  ELSE Deliver(o, "err", "parse", "load", Undef, FALSE)

\* fs.readFile completes (readSettingsFile).
Read(p, f) ==
  /\ ops[p].pc = "read"
  /\ Fault(f)
  /\ LET o == Faulted(ops[p], f) IN
     ops' = [ops EXCEPT ![p] =
       IF f \/ ~files[o.filePath].ex THEN Deliver(o, "err", "io", "load", Undef, FALSE)
       ELSE readCallback(o, config, IF o.utf8 THEN Plain(Utf8(files[o.filePath].b))
                                    ELSE files[o.filePath].b)]
  /\ UNCHANGED <<config, dirs, files, chain, cfgCalls, files0, direct, mode, defaultsObj, pre, calls, codec>>

Next ==
  \/ \E p \in Procs, kind \in Kinds : \E args \in ArgLists(kind, FALSE, mode) : Call(p, kind, args)
  \/ \E p \in Procs, kind \in Kinds : \E args \in ArgLists(kind, TRUE, mode) :
       \E flt \in 0..MaxSyncIO, part \in BOOLEAN, u \in UndefinedWrites :
         CallSync(p, kind, args, flt, part, u)
  \/ \E opts \in ConfigureOpts(mode) : Configure(opts)
  \/ Reset
  \/ \E p \in Procs, f \in BOOLEAN : StatFile(p, f)
  \/ \E p \in Procs, f \in BOOLEAN : StatDir(p, f)
  \/ \E p \in Procs, f \in BOOLEAN : Mkdir(p, f)
  \/ \E p \in Procs, f \in BOOLEAN, u \in UndefinedWrites : WriteAtomic(p, f, u)
  \/ \E p \in Procs, f \in BOOLEAN, u \in UndefinedWrites : Open(p, f, u)
  \/ \E p \in Procs, f \in BOOLEAN : Write(p, f)
  \/ \E p \in Procs, f \in BOOLEAN : Read(p, f)

Spec == Init /\ [][Next]_vars
SpecSeq == InitSeq /\ [][Next]_vars
SpecFault == InitFault /\ [][Next]_vars
InitKeyPath == InitMode("kp")
SpecKeyPath == InitKeyPath /\ [][Next]_vars

(***************************************************************************)
(* Properties.                                                             *)
(***************************************************************************)
DefaultPath == <<UserData, "settings.json">>
GarbageFile == File(Plain(<<Garbage>>))

\* The document a reader would load now under the current configuration.
CurrentDoc ==
  LET f == files[getSettingsFilePath(config)] IN
  IF f.ex THEN reconstructSettingsData(f.b, config) ELSE [ok |-> FALSE, v |-> Undef]

\* Bytes that are one complete encoding: one cipher (or none) throughout, and
\* the text parses.
Whole(bytes) ==
  /\ \A i \in 1..Len(bytes) : bytes[i].alg = bytes[1].alg /\ bytes[i].key = bytes[1].key
  /\ JSONparse([i \in 1..Len(bytes) |-> bytes[i].t]).ok

Last == ops["p1"]

C2_SetUnsetHas ==
  (/\ Last.pc = "done" /\ Last.kind = "has"
   /\ chain.stage = 2 /\ Last.keyPath = chain.kp)
  => /\ Last.status = "ok"
     /\ Last.result = Num(<<"0">>)
     /\ CurrentDoc.ok
     /\ \A i \in 1..Len(chain.base.kv) :
          chain.base.kv[i].k # splitKeyPath(chain.kp)[1]
          => DeepEqual(Prop(CurrentDoc.v, chain.base.kv[i].k), chain.base.kv[i].v)

\* C2 witness: has answered after set and unset of a.b on a document that
\* also holds the key z.
C2_Witness ==
  /\ Last.pc = "done" /\ Last.kind = "has" /\ Last.status = "ok"
  /\ chain.stage = 2 /\ chain.kp = KAB /\ Last.keyPath = KAB
  /\ HasOwn(chain.base, <<"z">>)
  /\ CurrentDoc.ok /\ HasOwn(CurrentDoc.v, <<"z">>)

InvalidRequired(o) == o.kind \in {"has", "unset"} /\ ~isKeyPath(Arg(o.args, 1))

C5_SetUndefinedThenGet ==
  (/\ Last.pc = "done" /\ Last.kind = "get" /\ ~Truthy(Last.keyPath)
   /\ chain.stage = 1 /\ chain.form = "undef")
  => Last.status = "ok" /\ DeepEqual(Last.result, chain.val)

BothSetsDone ==
  /\ \A p \in Procs : ops[p].pc = "done" /\ ops[p].kind = "set" /\ ops[p].status = "ok"
  /\ ops["p1"].keyPath # ops["p2"].keyPath
  /\ cfgCalls = 0

\* C6 as stated: whatever the configuration, no file ever holds a mixture of
\* two encodings.
C6_NeverMixed ==
  \A q \in Paths : (files[q].ex /\ files[q].b # <<>>) => Whole(files[q].b)

\* C6: when every write is made with atomicSave on, no file ever holds a
\* mixture of two encodings, and after two overlapping sets on different keys
\* the file is the document of one of the two saves.
C6_AtomicNeverMixed ==
  ~direct =>
    /\ \A q \in Paths : files[q].ex => Whole(files[q].b)
    /\ BothSetsDone =>
         /\ CurrentDoc.ok
         /\ \E p \in Procs : DeepEqual(kphGetValueAtKeyPath(CurrentDoc.v, ops[p].keyPath), One)

\* C6 witness: both sets have succeeded and the key of one is missing.
C6_Witness ==
  /\ ~direct /\ BothSetsDone /\ CurrentDoc.ok
  /\ \E p \in Procs : ~kphHasKeyPath(CurrentDoc.v, ops[p].keyPath)

\* C7: with atomicSave on and the configuration never changed, every file is
\* at all times decodable, and no call fails with a parse error.
C7_AtomicReadsWhole ==
  cfgCalls = 0 =>
    /\ \A q \in Paths : files[q].ex => reconstructSettingsData(files[q].b, config).ok
    /\ \A p \in Procs : ops[p].err # "parse"

\* C7 witness: a get or has has answered while a set that already wrote to
\* the file is still in flight.
C7_Witness ==
  /\ cfgCalls = 0
  /\ \E p, q \in Procs :
       /\ ops[p].kind \in {"get", "has"} /\ ops[p].pc = "done" /\ ops[p].status = "ok"
       /\ ops[q].kind = "set" /\ InFlight(ops[q]) /\ ops[q].w > 0

\* C8: every I/O step of a call in flight uses the file path and the
\* atomicSave flag of the configuration the call started with.
C8_ConfigSnapshot ==
  \A p \in Procs :
    InFlight(ops[p]) =>
      /\ ops[p].filePath = getSettingsFilePath(ops[p].cfg0)
      /\ ops[p].pc \in {"writeAtomic", "open", "write"} => ops[p].atomic = ops[p].cfg0.atomicSave

LoadFailed(o) ==
  /\ o.pc = "done" /\ o.stage = "load"
  /\ o.kind = "unset" \/ (o.kind = "set" /\ Truthy(o.keyPath))

\* C9 as stated: a set with a key path or an unset whose load step fails
\* has written nothing.
C9_LoadFailureWritesNothing ==
  \A p \in Procs : LoadFailed(ops[p]) => ops[p].w = 0

\* C9: a set with a key path or an unset whose load step fails reports the
\* error and never starts the save of a mutated document; it has written at
\* all only when the file was missing at its stat, where the load creates it.
\* Over a file of undecodable bytes every such call fails in its load step
\* and the bytes stay as they were.
C9_LoadFailureNeverSaves ==
  /\ \A p \in Procs :
       LoadFailed(ops[p]) =>
         /\ ops[p].status \in {"err", "threw"}
         /\ ops[p].err \in {"io", "parse"}
         /\ ~ops[p].saved
         /\ ops[p].loaded = Undef
         /\ ops[p].found # "no" => ops[p].w = 0
         /\ ops[p].sync \/ ops[p].cb = 1
  /\ files0[DefaultPath] = GarbageFile =>
       /\ files[DefaultPath] = GarbageFile
       /\ \A p \in Procs :
            (ops[p].pc = "done" /\ ops[p].kind \in {"set", "unset"}) => LoadFailed(ops[p])

\* C9 witness: a callback set on an existing file that does not parse has
\* reported the error.
C9_Witness ==
  /\ LoadFailed(Last) /\ ~Last.sync /\ Last.kind = "set"
  /\ Last.found = "yes" /\ Last.err = "parse" /\ Last.w = 0
  /\ files[DefaultPath] = GarbageFile

\* C10 as stated: every set that starts a save has loaded a document first.
C10_EverySetLoads ==
  \A p \in Procs : (ops[p].kind = "set" /\ ops[p].saved) => ops[p].loaded # Undef

\* C10: a set with a non-empty key path starts its save only after it loaded
\* a document, and a load that fails on undecodable bytes writes nothing; a
\* set with the key path omitted saves without any load step.
C10_KeyPathSetLoads ==
  \A p \in Procs :
    ops[p].kind = "set" =>
      /\ (Truthy(ops[p].keyPath) /\ ops[p].saved) => ops[p].loaded # Undef
      /\ (Truthy(ops[p].keyPath) /\ ops[p].err = "parse") => ~ops[p].saved /\ ops[p].w = 0
      /\ ~Truthy(ops[p].keyPath) =>
           ops[p].found = "" /\ ops[p].loaded = Undef /\ ops[p].stage # "load"

\* C10 witness: a whole-document set has succeeded over a file of undecodable
\* bytes, which it never read.
C10_Witness ==
  /\ Last.pc = "done" /\ Last.kind = "set" /\ ~Truthy(Last.keyPath)
  /\ Last.status = "ok" /\ Last.w = 1 /\ Last.found = ""
  /\ files0[DefaultPath] = GarbageFile
  /\ CurrentDoc.ok

\* The file a call issued now would read, as it was when the last call was
\* issued.
PreFile == pre.files[getSettingsFilePath(config)]

\* C11: a get or has issued on a file whose bytes do not decode under the
\* current configuration (malformed JSON, plain text with a key configured,
\* cipher output of another key read with a key or with none) ends with an
\* error, returns no value, and leaves directories and files as they were.
C11_UndecodableReportsError ==
  (/\ Last.pc = "done" /\ Last.kind \in {"get", "has"}
   /\ PreFile.ex /\ ~reconstructSettingsData(PreFile.b, config).ok)
  => /\ Last.status \in {"err", "threw"}
     /\ Last.err \in {"parse", "io"}
     /\ Last.result = Undef
     /\ Last.w = 0
     /\ files = pre.files /\ dirs = pre.dirs

\* C11 witness: a callback get has reported a parse error on a file that
\* holds the cipher output of key k2 while key k1 is configured.
C11_Witness ==
  /\ Last.pc = "done" /\ Last.kind = "get" /\ ~Last.sync
  /\ Last.status = "err" /\ Last.err = "parse" /\ Last.cb = 1
  /\ config.encryptionKey = "k1"
  /\ PreFile = CipherFile /\ files = pre.files

\* What the Sync variant of the last call returns when it is issued in the
\* state the last call was issued in, with u the outcome of a write of
\* undefined.
SyncOutcome(args, u) ==
  EnterSync(Last.kind, args, Ctx(pre.dirs, pre.files, 0, FALSE, u), config).x

\* The completed callback call in slot p1 and a Sync outcome x agree: the same
\* value or the same error, and the same directories and files.
SameOutcome(x) ==
  /\ \/ Last.status = "ok" /\ x.err = "" /\ Last.result = x.v
     \/ Last.status \in {"err", "threw"} /\ x.err = Last.err
  /\ files = x.files /\ dirs = x.dirs

\* C12: a callback get / has / set / unset that ran to completion gave the
\* result or error, and left the files, that its Sync variant gives with the
\* same arguments in the same state.
C12_SyncAsyncSame ==
  (Last.pc = "done" /\ ~Last.sync)
  => \E u \in UndefinedWrites : SameOutcome(SyncOutcome(SubSeq(Last.args, 1, Len(Last.args) - 1), u))

\* The document in the file that the pending read of call o is about to
\* deliver.
DocAtRead(o) ==
  IF files[o.filePath].ex THEN reconstructSettingsData(files[o.filePath].b, config)
  ELSE [ok |-> FALSE, v |-> Undef]

\* C13: the step in which a read completes gives a get / has the value held
\* at its key path by the file's content at that moment, and gives a set /
\* unset that content as the document to mutate, whoever wrote the file and
\* whenever.
C13_ReadsFileAnew ==
  [][\A p \in Procs :
       (ops[p].pc = "read" /\ ops'[p] # ops[p]) =>
         /\ (ops'[p].kind = "get" /\ ops'[p].status = "ok") =>
               /\ DocAtRead(ops[p]).ok
               /\ ops'[p].result = kphGetValueAtKeyPath(DocAtRead(ops[p]).v, ops[p].keyPath)
         /\ (ops'[p].kind = "has" /\ ops'[p].status = "ok") =>
               /\ DocAtRead(ops[p]).ok
               /\ (ops'[p].result = Num(<<"1">>))
                    = kphHasKeyPath(DocAtRead(ops[p]).v, ops[p].keyPath)
         /\ (ops'[p].kind \in {"set", "unset"} /\ ops'[p].saved) =>
               /\ DocAtRead(ops[p]).ok
               /\ ops'[p].loaded = DocAtRead(ops[p]).v]_vars

\* C13 witness: the get issued first has returned the value that the set
\* issued after it put in the file, which held no key a at the start.
C13_Witness ==
  /\ ops["p1"].kind = "get" /\ ops["p1"].pc = "done" /\ ops["p1"].status = "ok"
  /\ ops["p1"].keyPath = KA /\ ops["p1"].result = One
  /\ ops["p2"].kind = "set" /\ ops["p2"].keyPath = KA
  /\ ~HasOwn(reconstructSettingsData(files0[DefaultPath].b, defaults).v, <<"a">>)

\* The completed call in slot p1 is one that loads the document.
Loads(o) ==
  \/ o.kind = "get"
  \/ o.kind \in {"has", "unset"} /\ isKeyPath(Arg(o.args, 1))
  \/ o.kind = "set" /\ Truthy(o.keyPath)

\* C14: a loading call issued while the settings file did not exist succeeds;
\* it created the directory if it was missing and the file as the encoding of
\* {} under the configuration, and then worked on the empty mapping: get()
\* returns {}, get(p) undefined, has(p) false, and the file exists afterwards.
C14_MissingFileCreated ==
  (Last.pc = "done" /\ Loads(Last) /\ ~PreFile.ex)
  => /\ Last.status = "ok"
     /\ Last.found = "no"
     /\ dirs = pre.dirs \cup {getSettingsDirPath(config)}
     /\ files[getSettingsFilePath(config)].ex /\ CurrentDoc.ok
     /\ Last.kind \in {"get", "has"} =>
          /\ files[getSettingsFilePath(config)].b = prepareSettingsData(EmptyObj, config).b
          /\ CurrentDoc.v = EmptyObj
          /\ Last.w = 1
     /\ Last.kind = "get" =>
          Last.result = (IF Truthy(Last.keyPath) THEN Undef ELSE EmptyObj)
     /\ Last.kind = "has" => Last.result = Num(<<"0">>)
     /\ Last.kind \in {"set", "unset"} => Last.loaded = EmptyObj /\ Last.w = 2

\* C14 witness: a callback get() has returned {} where neither the file nor
\* its directory existed, with an encryption key configured.
C14_Witness ==
  /\ Last.pc = "done" /\ Last.kind = "get" /\ ~Last.sync /\ ~Truthy(Last.keyPath)
  /\ Last.status = "ok" /\ Last.result = EmptyObj
  /\ ~PreFile.ex /\ UserData \notin pre.dirs /\ UserData \in dirs
  /\ config.encryptionKey = "k1"
  /\ files[DefaultPath].ex

(***************************************************************************)
(* The codec alone: a document d is encoded by prepareSettingsData under a *)
(* configuration and the result decoded by reconstructSettingsData under   *)
(* the same configuration.                                                 *)
(***************************************************************************)
CodecDocs ==
  {EmptyObj, DocA, DocZ,
   Obj(<<P(<<"a">>, Obj(<<P(<<"b">>, Str(<<"x">>))>>)), P(<<"z">>, Null)>>),
   Obj(<<P(<<"a">>, Arr(<<One, Null, VObj>>))>>),
   Obj(<<P(<<"a", ".", "b">>, Arr(<<>>)), P(<<"c">>, EmptyObj)>>)}

CodecConfigs ==
  {[defaults EXCEPT !.encryptionKey = k, !.encryptionAlgorithm = a, !.prettify = pr,
                    !.numSpaces = n] :
     k \in {"", "k1"}, a \in {"aes-256-cbc", "aes-128-cbc"}, pr \in BOOLEAN, n \in {0, 2, 4, 12}}

InitCodec ==
  /\ mode = "codec"
  /\ config = defaults
  /\ dirs = {}
  /\ files = [q \in Paths |-> NoFile]
  /\ ops = [p \in Procs |-> Idle]
  /\ chain = NoChain
  /\ faults = 0
  /\ cfgCalls = 0
  /\ files0 = files
  /\ direct = FALSE
  /\ pre = NoPre
  /\ calls = <<>>
  /\ defaultsObj = defaults
  /\ codec \in {[NoCodec EXCEPT !.pc = "start", !.d = d, !.cfg = c] :
                  d \in CodecDocs, c \in CodecConfigs}

\* prepareSettingsData(d)
Encode ==
  /\ codec.pc = "start"
  /\ LET data == prepareSettingsData(codec.d, codec.cfg) IN
     codec' = IF data.err \/ ~data.def THEN [codec EXCEPT !.pc = "threw"]
              ELSE [codec EXCEPT !.pc = "encoded", !.bytes = data.b]
  /\ UNCHANGED <<config, dirs, files, ops, chain, faults, cfgCalls, files0, direct, mode, defaultsObj, pre,
                 calls>>

\* reconstructSettingsData(data) on what Encode returned
Decode ==
  /\ codec.pc = "encoded"
  /\ LET r == reconstructSettingsData(codec.bytes, codec.cfg) IN
     codec' = [codec EXCEPT !.pc = "decoded", !.ok = r.ok, !.r = r.v]
  /\ UNCHANGED <<config, dirs, files, ops, chain, faults, cfgCalls, files0, direct, mode, defaultsObj, pre,
                 calls>>

NextCodec == Encode \/ Decode

SpecCodec == InitCodec /\ [][NextCodec]_vars

\* C15: decoding the bytes that encoding a document produced, under the same
\* configuration, succeeds and yields a document deeply equal to it; the
\* encoding itself never fails.
C15_CodecRoundTrip ==
  /\ codec.pc # "threw"
  /\ codec.pc = "decoded" => codec.ok /\ DeepEqual(codec.r, codec.d)

\* C15 witness: a document with a nested array has come back from its
\* indented, enciphered encoding.
C15_Witness ==
  /\ codec.pc = "decoded" /\ codec.ok
  /\ codec.cfg.encryptionKey = "k1" /\ codec.cfg.prettify /\ codec.cfg.numSpaces = 4
  /\ Prop(codec.d, <<"a">>).ty = "arr"
  /\ \E i \in 1..Len(codec.bytes) : codec.bytes[i].t.k = "ws"

\* Every unit of the bytes is cipher output under the configured algorithm
\* and key, or every unit is text in the clear when no key is configured.
FollowsKey(bytes, cfg) ==
  \A i \in 1..Len(bytes) :
    IF cfg.encryptionKey # ""
    THEN bytes[i].alg = cfg.encryptionAlgorithm /\ bytes[i].key = cfg.encryptionKey
    ELSE bytes[i].alg = "" /\ bytes[i].key = ""

\* C16: every step that changes a file leaves it holding, with a key
\* configured, cipher output under the configured algorithm and key that
\* decrypts to JSON text and does not itself parse as JSON; and with no key
\* configured, text in the clear.
C16_WritesFollowKey ==
  [][\A q \in Paths :
       files'[q] # files[q] =>
         /\ files'[q].ex
         /\ FollowsKey(files'[q].b, config)
         /\ (config.encryptionKey # "" /\ files'[q].b # <<>>) =>
              /\ reconstructSettingsData(files'[q].b, config).ok
              /\ ~JSONparse(Utf8(files'[q].b)).ok]_vars

\* C16 witness: with key k1 configured, a has on a missing file has created
\* it as the cipher output of the text {}.
C16_Witness ==
  /\ Last.pc = "done" /\ Last.kind = "has" /\ Last.status = "ok" /\ Last.found = "no"
  /\ config.encryptionKey = "k1"
  /\ ~PreFile.ex
  /\ files[DefaultPath] = File(encryptData(<<Punct("{"), Punct("}")>>, config))

\* The single top-level key 'f.b' that the key path 'f\.b' names.
FDotB == <<"f", ".", "b">>

\* The document in the file when the last call was issued; {} when there was
\* no file.
PreDoc == IF PreFile.ex THEN reconstructSettingsData(PreFile.b, config).v ELSE EmptyObj

RECURSIVE Leaves(_)
RECURSIVE LeavesOfEls(_, _)
LeavesOfEls(els, i) ==
  IF i > Len(els) THEN <<>> ELSE Leaves(els[i].v) \o LeavesOfEls(els, i + 1)

Leaves(v) == IF v.ty = "arr" THEN LeavesOfEls(v.kv, 1) ELSE <<v.s>>

RECURSIVE JoinDots(_, _)
JoinDots(ls, i) ==
  IF i > Len(ls) THEN <<>>
  ELSE (IF i = 1 THEN <<>> ELSE <<".">>) \o ls[i] \o JoinDots(ls, i + 1)

JoinedString(v) == Str(JoinDots(Leaves(v), 1))

\* The arguments of a call without its callback.
CallArgs(o) == IF o.sync THEN o.args ELSE SubSeq(o.args, 1, Len(o.args) - 1)

InitConfig ==
  /\ mode = "cfg"
  /\ config = defaults
  /\ defaultsObj = defaults
  /\ dirs \in {{}, {UserData}}
  /\ \E f \in InitialFiles(mode) :
       /\ f.ex => UserData \in dirs
       /\ files = [q \in Paths |-> IF q = <<UserData, "settings.json">> THEN f ELSE NoFile]
  /\ ops = [p \in Procs |-> Idle]
  /\ chain = NoChain
  /\ faults = 0
  /\ cfgCalls = 0
  /\ files0 = files
  /\ direct = FALSE
  /\ pre = NoPre
  /\ calls = <<>>
  /\ codec = NoCodec

\* file(): the path is returned to the caller (ret).
FileCall ==
  /\ mode = "cfg"
  /\ Len(calls) < MaxConfigOnly
  /\ calls' = Append(calls, [op |-> "file", opts |-> [x \in {} |-> 0],
                               ret |-> getSettingsFilePath(config)])
  /\ UNCHANGED <<config, dirs, files, ops, chain, faults, cfgCalls, files0, direct, mode,
                 defaultsObj, pre, codec>>

NextConfig ==
  \/ \E opts \in ConfigureOpts(mode) : Configure(opts)
  \/ Reset
  \/ FileCall

SpecConfig == InitConfig /\ [][NextConfig]_vars

\* The calls made since the last reset() (all of them when there was none).
SinceReset ==
  LET rs == {i \in 1..Len(calls) : calls[i].op = "reset"}
      from == IF rs = {} THEN 1 ELSE (CHOOSE i \in rs : \A j \in rs : j <= i) + 1
  IN SubSeq(calls, from, Len(calls))

\* The value field f is to have: that of the latest configure since the last
\* reset that names f, the value in lib/defaults.js when none does.
Configured(f) ==
  LET s == SinceReset
      named == {i \in 1..Len(s) : f \in DOMAIN s[i].opts}
  IN IF named = {} THEN defaults[f]
     ELSE s[CHOOSE i \in named : \A j \in named : j <= i].opts[f]

\* C19: configure(partial) merges onto the current configuration and not onto
\* the defaults: after any calls, every field has the value of the latest
\* configure (since the last reset) that names it, and its default when none
\* names it; so after configure(A) then configure(B) the fields of A not named
\* in B keep A's values and the fields named in B have B's.
C19_ConfigureMerges ==
  mode = "cfg" =>
    /\ DOMAIN config = ConfigFields
    /\ \A f \in ConfigFields : config[f] = Configured(f)

\* C19 witness: configure({dir: 'd1'}) then configure({fileName: 'foo.json'})
\* have run: dir is still d1, fileName is foo.json, the rest are defaults.
C19_Witness ==
  /\ mode = "cfg"
  /\ calls = <<[op |-> "configure", opts |-> [dir |-> "d1"]],
               [op |-> "configure", opts |-> [fileName |-> "foo.json"]]>>
  /\ config = [defaults EXCEPT !.dir = "d1", !.fileName = "foo.json"]

\* file()
file == getSettingsFilePath(config)

\* C20: a reset() after any sequence of configure and reset calls leaves the
\* configuration equal to the built-in defaults, which no call has altered,
\* and file() is then the default directory joined with settings.json.
C20_ResetRestoresDefaults ==
  mode = "cfg" =>
    /\ defaultsObj = defaults
    /\ (calls # <<>> /\ calls[Len(calls)].op = "reset")
       => config = defaults /\ file = <<UserData, "settings.json">>

\* C20 witness: reset() has run after two configure calls that moved the file
\* and set a key.
C20_Witness ==
  /\ mode = "cfg" /\ Len(calls) = 3
  /\ calls[1] = [op |-> "configure", opts |-> [dir |-> "d1", fileName |-> "bar.json"]]
  /\ calls[2] = [op |-> "configure", opts |-> [encryptionKey |-> "k1", prettify |-> TRUE]]
  /\ calls[3].op = "reset"
  /\ config = defaults /\ file = <<UserData, "settings.json">>

\* C21: file() returns the configured directory, or the user-data directory
\* when none is configured, joined with the configured file name: a function
\* of the current configuration alone.  The call makes no I/O request and
\* leaves directories, files and the configuration as they were.
C21_FilePure ==
  [][(mode = "cfg" /\ Len(calls') = Len(calls) + 1 /\ calls'[Len(calls')].op = "file")
     => /\ calls'[Len(calls')].ret =
             <<IF config.dir = "" THEN "userData" ELSE config.dir, config.fileName>>
        /\ UNCHANGED <<config, defaultsObj, dirs, files, ops>>]_vars

\* C21 witness: file() has returned d1/bar.json after configure({dir: 'd1',
\* fileName: 'bar.json'}), with the settings file of the user-data directory
\* in place and no directory d1.
C21_Witness ==
  /\ mode = "cfg" /\ Len(calls) = 2
  /\ calls[1] = [op |-> "configure", opts |-> [dir |-> "d1", fileName |-> "bar.json"]]
  /\ calls[2].op = "file" /\ calls[2].ret = <<"d1", "bar.json">>
  /\ files[<<UserData, "settings.json">>].ex /\ "d1" \notin dirs

\* The JSON text of the encoded document, before any encryption.
EncodedText == [i \in 1..Len(codec.bytes) |-> codec.bytes[i].t]

\* The text is indented by w spaces per nesting level: with w = 0 it holds no
\* whitespace at all; otherwise a non-empty document opens with a line break
\* followed by w spaces, and every whitespace is the single space after a
\* colon or a line break followed by a multiple of w spaces.
IndentedBy(t, w) ==
  IF w = 0 THEN \A i \in 1..Len(t) : t[i].k # "ws"
  ELSE /\ Len(t) > 2 => t[2].k = "ws" /\ t[2].s = <<"\n">> \o Spaces(w)
       /\ \A i \in 1..Len(t) :
            t[i].k = "ws" =>
              \/ t[i].s = <<" ">> /\ i > 1 /\ t[i - 1] = Punct(":")
              \/ \E level \in 0..3 : t[i].s = <<"\n">> \o Spaces(w * level)

\* C22 as stated: the indentation of a saved document is numSpaces when
\* prettify is true and 0 when it is false, whatever numSpaces is.
C22_IndentIsNumSpaces ==
  codec.pc \in {"encoded", "decoded"}
  => IndentedBy(EncodedText, IF codec.cfg.prettify THEN codec.cfg.numSpaces ELSE 0)

\* C22 amended: the indentation of a saved document is numSpaces, or 10 when
\* numSpaces is larger than 10, when prettify is true, and 0 (no whitespace) when
\* prettify is false, whatever numSpaces is.
C22_IndentClamped ==
  codec.pc \in {"encoded", "decoded"}
  => IndentedBy(EncodedText,
                IF ~codec.cfg.prettify THEN 0
                ELSE IF codec.cfg.numSpaces <= 10 THEN codec.cfg.numSpaces ELSE 10)

\* C22 witness: {a: [1, null, {c: 2}]} encoded with prettify and numSpaces 4,
\* and the same document encoded without prettify and numSpaces 4.
C22_Witness ==
  /\ codec.pc = "encoded" /\ codec.d = Obj(<<P(<<"a">>, Arr(<<One, Null, VObj>>))>>)
  /\ codec.cfg.prettify /\ codec.cfg.numSpaces = 4
  /\ EncodedText[2] = Tok("ws", <<"\n", " ", " ", " ", " ">>)
  /\ \E i \in 1..Len(EncodedText) : EncodedText[i] = Tok("ws", <<"\n">> \o Spaces(12))

\* C23: when an I/O step of a call fails (a stat with an error other than
\* not-found, the directory creation, the read or the write), a callback
\* variant invokes the callback once with that error and a Sync variant throws
\* it; the call ends there with no result, requests no further I/O and does
\* not repeat the failed step.
C23_IoFailurePropagates ==
  [][\A p \in Procs :
       (faults' = faults + 1 /\ ops'[p] # ops[p])
       => /\ ops'[p].pc = "done" /\ ops'[p].err = "io" /\ ops'[p].result = Undef
          /\ IF ops'[p].sync
             THEN /\ ops'[p].status = "threw" /\ ops'[p].cb = 0
                  /\ \A flt \in 1..MaxSyncIO, part \in BOOLEAN :
                       LET r == EnterSync(ops'[p].kind, ops'[p].args,
                                          Ctx(dirs, files, flt, part, "throw"), config)
                       IN  r.x.n >= flt => r.x.n = flt /\ r.x.err = "io"
             ELSE /\ ops'[p].status = "err" /\ ops'[p].cb = ops[p].cb + 1
                  /\ ops'[p].io = ops[p].io /\ ops'[p].w = ops[p].w]_vars

\* C23 witness: set('a', 1, callback) on an existing file has ended with the
\* error of its write, the fourth I/O request, and the file is as it was.
C23_Witness ==
  /\ Last.pc = "done" /\ Last.kind = "set" /\ ~Last.sync /\ Last.flt
  /\ Last.status = "err" /\ Last.err = "io" /\ Last.stage = "save"
  /\ Last.cb = 1 /\ Last.io = 4 /\ Last.w = 0
  /\ files = pre.files /\ files[DefaultPath].ex

\* The pending I/O request of call p completes, with or without an error.
IOStep(p) ==
  \E f \in BOOLEAN, u \in UndefinedWrites :
    \/ StatFile(p, f) \/ StatDir(p, f) \/ Mkdir(p, f) \/ Read(p, f)
    \/ WriteAtomic(p, f, u) \/ Open(p, f, u) \/ Write(p, f)

\* The positions at which a call waits for an I/O request: IOStep(p) is
\* enabled at each of them.
Pending == {"statFile", "statDir", "mkdir", "read", "writeAtomic", "open", "write"}

\* A callback-variant call whose key path is valid or, for get / set, omitted.
AsyncValid(o) ==
  /\ o.kind \in Kinds /\ ~o.sync
  /\ o.kind \in {"has", "unset"} => isKeyPath(Arg(o.args, 1))

\* C24: a get, has, set or unset issued with a callback and a valid (for get
\* and set, possibly omitted) key path never stays pending: while it is in
\* flight it waits for one I/O request whose completion it handles, it makes
\* at most eight requests, and when it has ended it has invoked the caller's
\* callback with an error or a result.
C24_CallbackInvoked ==
  \A p \in Procs :
    AsyncValid(ops[p]) =>
      /\ InFlight(ops[p]) => ops[p].pc \in Pending /\ ops[p].io <= 8
      /\ ops[p].pc = "done" => ops[p].cb = 1 /\ ops[p].status \in {"ok", "err"}

Mutating(o) == o.kind \in {"set", "unset"}

\* C25: when the settings directory does not exist a set / unset creates it and
\* succeeds, and so does a second one issued after it or while it runs: the
\* directory creation of a call succeeds also when another call has created
\* the directory in the meantime, and with atomic writes and no configure /
\* reset in between every set / unset ends in success with the directory in
\* place.
C25_DirectoryCreation ==
  [][\A p \in Procs :
       /\ (ops[p].pc = "mkdir" /\ ops'[p] # ops[p] /\ faults' = faults)
          => /\ ops'[p].pc \in {"writeAtomic", "open"}
             /\ ops[p].dir \in dirs'
       /\ (/\ Mutating(ops'[p]) /\ ops'[p].pc = "done" /\ ops[p].pc # "done"
           /\ ops'[p].status # "threw" /\ cfgCalls' = 0 /\ ~direct' /\ faults' = 0)
          => ops'[p].status = "ok" /\ UserData \in dirs']_vars

\* C25 witness: two overlapping set calls found neither the file nor the
\* directory, both requested its creation, and both have succeeded.
C25_Witness ==
  /\ cfgCalls = 0 /\ ~files0[DefaultPath].ex
  /\ \A p \in Procs :
       /\ ops[p].pc = "done" /\ ops[p].kind = "set" /\ ~ops[p].sync
       /\ ops[p].found = "no" /\ ops[p].io = 7 /\ ops[p].status = "ok"
  /\ UserData \in dirs /\ CurrentDoc.ok

ReadOnly(o) == o.kind \in {"get", "has"}

\* C26: read-only calls cannot destroy written data: when a set has succeeded,
\* the only other call was a get / has in flight at the same time, and nothing
\* is in flight any more, the document on disk (what every later get reads)
\* holds the value the set wrote at its key path.
C26_ReadersPreserveWrites ==
  \A p, q \in Procs :
    (/\ p # q /\ cfgCalls = 0 /\ NoneInFlight
     /\ ops[p].kind = "set" /\ ops[p].pc = "done" /\ ops[p].status = "ok"
     /\ ReadOnly(ops[q]) \/ ops[q].kind = "idle")
    => /\ CurrentDoc.ok
       /\ DeepEqual(kphGetValueAtKeyPath(CurrentDoc.v, ops[p].keyPath), ops[p].val)

InitCallback == InitMode("cb")
SpecCallback == InitCallback /\ [][Next]_vars

\* C27: a callback-variant call invokes the caller's callback at most once,
\* also when the callback throws while it is invoked with the result.
C27_CallbackAtMostOnce ==
  \A p \in Procs : ~ops[p].sync => ops[p].cb <= 1

\* Key path q lies off key path p: neither segment list is a prefix of the
\* other.
IsPrefix(a, b) == Len(a) <= Len(b) /\ SubSeq(b, 1, Len(a)) = a
OffPath(p, q) ==
  /\ ~IsPrefix(splitKeyPath(p), splitKeyPath(q))
  /\ ~IsPrefix(splitKeyPath(q), splitKeyPath(p))

\* The key paths probed before and after a set / unset.
Probes ==
  {Str(<<"f">>), Str(<<"f", ".", "b">>), KFBC, Str(<<"f", ".", "b", ".", "d">>), KEsc,
   KA, KAB, KABC, Str(<<"a", ".", "z">>), Str(<<"a", ".", "b", ".", "z">>), Str(<<"z">>)}

\* C28: a successful set(p, v) or unset(p) changes only the addressed
\* location: for every key path q off p, get(q) and has(q) answer from the
\* file after the call what they answered from the file before it.
C28_FrameOfSetUnset ==
  (Last.pc = "done" /\ Mutating(Last) /\ Last.status = "ok" /\ Truthy(Last.keyPath))
  => /\ CurrentDoc.ok
     /\ \A q \in Probes :
          OffPath(Last.keyPath, q)
          => /\ DeepEqual(kphGetValueAtKeyPath(CurrentDoc.v, q),
                          kphGetValueAtKeyPath(PreDoc, q))
             /\ kphHasKeyPath(CurrentDoc.v, q) = kphHasKeyPath(PreDoc, q)

\* C28 witness: set('f.b.c', 1) on {f: {b: 2}, a: {b: {c: 2}}} has replaced
\* the scalar under f.b by {c: 1}, and a.b.c is still 2.
C28_Witness ==
  /\ Last.pc = "done" /\ Last.kind = "set" /\ Last.keyPath = KFBC /\ Last.status = "ok"
  /\ PreDoc = DocNested
  /\ kphGetValueAtKeyPath(CurrentDoc.v, KFBC) = One
  /\ kphGetValueAtKeyPath(CurrentDoc.v, KABC) = Num(<<"2">>)
  /\ OffPath(KFBC, KABC) /\ ~OffPath(KFBC, Str(<<"f", ".", "b">>))

\* A get / has (callback or Sync) issued while the settings file existed has
\* written nothing so far: files and directories are as they were when it
\* was issued.
ReadLeftFiles ==
  (ReadOnly(Last) /\ PreFile.ex)
  => files = pre.files /\ dirs = pre.dirs /\ Last.w = 0 /\ ~Last.saved

\* C29: when the settings file exists, get, getSync, has and hasSync write
\* nothing: at every step of the call, and when it has succeeded or failed,
\* the files are as they were when it was issued, and no step of it changes
\* the configuration.
C29_ReadsWriteNothing ==
  [][/\ ReadLeftFiles'
     /\ \A p \in Procs :
          (ops'[p] # ops[p] /\ ReadOnly(ops'[p]))
          => config' = config /\ defaultsObj' = defaultsObj]_vars

\* C29 witness: hasSync('a') on an existing file has thrown the error of its
\* read, the second I/O call, and the file is as it was.
C29_Witness ==
  /\ Last.pc = "done" /\ Last.kind = "has" /\ Last.sync /\ Last.flt
  /\ Last.status = "threw" /\ Last.err = "io" /\ Last.io = 2
  /\ PreFile.ex /\ files = pre.files /\ PreFile = File(Plain(JSONstringify(DocZ, 0).b))

InitDoc == InitMode("doc")
SpecDoc == InitDoc /\ [][Next]_vars

\* getSync() with no key path has returned, right after setSync(d) succeeded.
ReadBack ==
  /\ mode = "doc"
  /\ Last.pc = "done" /\ Last.kind = "get" /\ Last.sync
  /\ chain.stage = 1 /\ chain.ok

InitArg == InitMode("arg")
SpecArg == InitArg /\ [][Next]_vars

\* get / getSync has ended, its first argument was neither a key path nor
\* the callback, and the settings file, if there was one, could be decoded.
NonPathGet ==
  /\ mode = "arg"
  /\ Last.pc = "done" /\ Last.kind = "get"
  /\ Arg(Last.args, 1).ty \in {"num", "arr"} /\ ~isKeyPath(Arg(Last.args, 1))
  /\ PreFile.ex => reconstructSettingsData(PreFile.b, config).ok

InitTree == InitMode("tree")
SpecTree == InitTree /\ [][Next]_vars

\* A call of the given kind has ended in mode "tree" on a settings file that
\* existed and could be decoded when the call was issued.
EndedOn(kind) ==
  /\ mode = "tree" /\ Last.pc = "done" /\ Last.kind = kind
  /\ PreFile.ex /\ reconstructSettingsData(PreFile.b, config).ok

\* C33: set('a.b', v) on a document whose a holds a scalar, null or an array
\* reports no error, and afterwards a is the mapping containing only b = v,
\* the other top-level keys being as they were.
C33_SetReplacesNonMapping ==
  (/\ EndedOn("set") /\ Last.keyPath = KAB
   /\ HasOwn(PreDoc, <<"a">>) /\ Prop(PreDoc, <<"a">>).ty # "obj")
  => /\ Last.status = "ok"
     /\ ~Last.sync => Last.cb = 1
     /\ CurrentDoc.ok
     /\ Prop(CurrentDoc.v, <<"a">>) = Obj(<<P(<<"b">>, Last.val)>>)
     /\ Prop(CurrentDoc.v, <<"z">>) = Prop(PreDoc, <<"z">>)

\* C33 witness: setSync('a.b', 1) on {a: [1]} has returned, and the document
\* is {a: {b: 1}}.
C33_Witness ==
  /\ EndedOn("set") /\ Last.sync /\ Last.args = <<KAB, One>>
  /\ PreDoc = DocAArr
  /\ CurrentDoc.v = Obj(<<P(<<"a">>, Obj(<<P(<<"b">>, One)>>))>>)

\* C34: unset(p) / unsetSync(p) for a path that does not resolve in the
\* current document (missing terminal key, missing intermediate, parent
\* that is not a mapping) completes without error, and the document read
\* afterwards is deeply equal to the document before the call.
C34_UnsetUnresolvedNoOp ==
  (EndedOn("unset") /\ ~kphHasKeyPath(PreDoc, Last.keyPath))
  => /\ Last.status = "ok"
     /\ ~Last.sync => Last.cb = 1
     /\ CurrentDoc.ok /\ DeepEqual(CurrentDoc.v, PreDoc)

\* C34 witness: unset('a.b') on {a: [1]}, whose a is not a mapping, has
\* called back without error, and the document is still {a: [1]}.
C34_Witness ==
  /\ EndedOn("unset") /\ ~Last.sync /\ Last.keyPath = KAB /\ Last.cb = 1
  /\ Last.status = "ok" /\ Last.saved
  /\ PreDoc = DocAArr /\ CurrentDoc.v = DocAArr

\* The path kp resolves in doc: every segment is a key of the mapping that
\* the segments before it lead to.
Resolves(doc, kp) ==
  \A i \in 1..Len(splitKeyPath(kp)) :
    HasOwn(GetAt(doc, SubSeq(splitKeyPath(kp), 1, i - 1), 1), splitKeyPath(kp)[i])

\* has / get on the key path of the set(p, null) that succeeded just before.
AfterSetNull(kind) ==
  /\ mode = "tree" /\ Last.pc = "done" /\ Last.kind = kind
  /\ chain.stage = 1 /\ chain.ok /\ chain.form = "kp" /\ chain.val = Null
  /\ Last.keyPath = chain.kp

\* C35: has(p) / hasSync(p) answer true exactly when the full path p
\* resolves to a stored value, and an explicit null counts as present: after
\* set(p, null), has(p) answers true and get(p) answers null, and for a
\* path that is not in the document has(p) answers false.
C35_HasCountsNull ==
  /\ (mode = "tree" /\ Last.pc = "done" /\ Last.kind = "has")
     => /\ Last.status = "ok"
        /\ ~Last.sync => Last.cb = 1
        /\ Last.result = (IF Resolves(PreDoc, Last.keyPath) THEN Num(<<"1">>) ELSE Num(<<"0">>))
  /\ AfterSetNull("has") => Last.status = "ok" /\ Last.result = Num(<<"1">>)
  /\ AfterSetNull("get") => Last.status = "ok" /\ Last.result = Null

\* C35 witness: has('a.b') right after set('a.b', null) on {a: 1, z: 1} has
\* answered true; the document holds a.b = null.
C35_Witness ==
  /\ AfterSetNull("has") /\ ~Last.sync /\ Last.keyPath = KAB /\ Last.result = Num(<<"1">>)
  /\ files0[DefaultPath] = File(Plain(JSONstringify(DocAZ, 0).b))
  /\ Prop(PreDoc, <<"a">>) = Obj(<<P(<<"b">>, Null)>>)

\* The first argument is an array that passes isKeyPath although one of its
\* leaves is not a string.
LooseKeyPath(o) ==
  /\ o.kind \in {"has", "unset"}
  /\ Arg(o.args, 1).ty = "arr" /\ isKeyPath(Arg(o.args, 1)) /\ ~StringLeaves(Arg(o.args, 1))

ThrowsAtEntry(p) ==
  /\ ops'[p].pc = "done" /\ ops'[p].status = "threw" /\ ops'[p].err = "type"
  /\ ops'[p].io = 0 /\ ops'[p].w = 0 /\ ops'[p].cb = 0
  /\ UNCHANGED <<config, dirs, files>>

SaveFailed ==
  /\ mode = "flt" /\ Last.pc = "done" /\ Last.kind \in {"set", "unset"}
  /\ Last.stage = "save" /\ Last.err = "io"

\* The settings file as it was when the save step began: the file of before
\* the call, or the encoding of {} that the load created for a missing file.
PriorContent ==
  IF Last.found = "no" THEN File(prepareSettingsData(EmptyObj, config).b) ELSE PreFile

\* The encoding of the document the save step was writing.
NewContent == File(prepareSettingsData(mutate(Last, Last.loaded), config).b)

\* The failing request came after fs.writeFile had opened the file.
FailedAfterOpen == Last.w > (IF Last.found = "no" THEN 1 ELSE 0)

\* C38: when the save step of set or unset fails, the operation reports the
\* error, and the file afterwards holds the complete prior content when
\* atomicSave is false, and the complete prior or the complete new content
\* when atomicSave is true: never a partially written file.
C38_FailedSaveKeepsFile ==
  SaveFailed =>
    /\ Last.status \in {"err", "threw"}
    /\ IF config.atomicSave
       THEN files[getSettingsFilePath(config)] \in {PriorContent, NewContent}
       ELSE files[getSettingsFilePath(config)] = PriorContent

\* C38: when the save step of set or unset fails, the operation reports the
\* error (the callback is called once with it, the Sync variant throws it).
\* With atomicSave true the file holds the complete prior content.  With
\* atomicSave false it holds the prior content when the failure came before
\* fs.writeFile opened the file, and is left truncated when the failure came
\* after the open.
C38_FailedSaveAtomicOrTruncated ==
  SaveFailed =>
    /\ Last.status = (IF Last.sync THEN "threw" ELSE "err")
    /\ ~Last.sync => Last.cb = 1
    /\ config.atomicSave => ~FailedAfterOpen
    /\ files[getSettingsFilePath(config)] =
         (IF FailedAfterOpen THEN File(<<>>) ELSE PriorContent)

\* C38 witness: with atomicSave false, set('a', 1, callback) on {"z": 1} has
\* reported the error of the write that followed the open, and the file is
\* empty.
C38_Witness ==
  /\ SaveFailed /\ Last.kind = "set" /\ ~Last.sync /\ Last.status = "err" /\ Last.cb = 1
  /\ ~config.atomicSave /\ FailedAfterOpen
  /\ PreFile = File(Plain(JSONstringify(DocZ, 0).b))
  /\ files[DefaultPath] = File(<<>>)

====
